---- MODULE Spec2Model ----
(***************************************************************************)
(* Art Studio Companion: the store functions of app/tools (supply          *)
(* inventory, projects, shopping-list reconciliation, portfolio, style     *)
(* preferences) over the tables of app/models/database.py.                 *)
(*                                                                         *)
(* Conventions.                                                            *)
(*  - Float columns (quantity, confidence) are fixed point, in hundredths: *)
(*    100 stands for 1.0, 25 for 0.25, 10 for 0.1.                         *)
(*  - Optional[T] is a sequence of length <= 1: None is << >>, a given     *)
(*    value x is <<x>>.                                                    *)
(*  - Python str values that the code compares character by character      *)
(*    (names, brands, materials) are sequences of one-character strings.   *)
(*  - datetime.utcnow() reads the variable clock, which Tick advances.     *)
(***************************************************************************)
EXTENDS Integers, Sequences, FiniteSets, TLC

VARIABLES supplies, usage, projects, pieces, prefs, clock, last, result,
          req, agent

vars == <<supplies, usage, projects, pieces, prefs, clock, last, result,
          req, agent>>

(***************************************************************************)
(* Bounds of the model.                                                    *)
(***************************************************************************)
MaxSupplies == 1
MaxUsage == 1
QtyMargin == 5
MaxInventory == 2
MaxMaterials == 2
MaxClock == 2
MaxImages == 2

(***************************************************************************)
(* Optional values.                                                        *)
(***************************************************************************)
None == << >>
Some(x) == <<x>>
Opt(S) == {None} \cup {Some(x) : x \in S}

(***************************************************************************)
(* Program constants (hundredths).                                         *)
(***************************************************************************)
FULL == 100
GREEN_MIN == 50
YELLOW_MIN == 25
LOW_STOCK == 25
CONFIDENCE_STEP == 10
CONFIDENCE_MAX == 100

Max(a, b) == IF b > a THEN b ELSE a
Min(a, b) == IF b < a THEN b ELSE a

(***************************************************************************)
(* Inputs of the inventory operations.                                     *)
(***************************************************************************)
SupplyNames == { <<"a">>, <<"A", "b">> }
SupplyCategories == { Some("paint") }
SupplyBrands == { None, Some(<<"B">>) }
QtyInputs == { -50, 30, 150 }
UseAmounts == { -25, 25 }
SupplyIds == 1 .. (MaxSupplies + 1)

(***************************************************************************)
(* Supply.get_status: the colour for a quantity.                           *)
(***************************************************************************)
get_status_strict(quantity) ==
    IF quantity > GREEN_MIN THEN "green"
    ELSE IF quantity >= YELLOW_MIN THEN "yellow"
    ELSE "red"

get_status(quantity) ==
    IF quantity >= GREEN_MIN THEN "green"
    ELSE IF quantity >= YELLOW_MIN THEN "yellow"
    ELSE "red"

(***************************************************************************)
(* db.query(T).filter(T.id == id).first() on a table kept as a sequence:   *)
(* the index of the first row with that id, 0 when there is none.          *)
(***************************************************************************)
FirstIndex(table, id) ==
    IF \E i \in 1 .. Len(table) : table[i].id = id
    THEN CHOOSE i \in 1 .. Len(table) :
            /\ table[i].id = id
            /\ \A j \in 1 .. (i - 1) : table[j].id # id
    ELSE 0

NextId(table) ==
    IF Len(table) = 0 THEN 1
    ELSE 1 + (CHOOSE m \in {table[i].id : i \in 1 .. Len(table)} :
                 \A i \in 1 .. Len(table) : table[i].id <= m)

NoCall == [op |-> "none", id |-> 0, ok |-> TRUE]

(***************************************************************************)
(* Requests in flight (req) and the chat agent singleton (agent); both are *)
(* idle in the specifications that call the store functions atomically.    *)
(* constructed counts the ArtStudioAgent objects made so far.               *)
(***************************************************************************)
Requests == {1, 2}

IdleRequest == [pc |-> "idle"]

NoRequests == [r \in Requests |-> IdleRequest]

NoAgent ==
    [instance |-> FALSE, client |-> FALSE, agent_id |-> FALSE, constructed |-> 0]

(***************************************************************************)
(* add_supply: a new row with the quantity as given.                       *)
(***************************************************************************)
NewSupply(id, name, category, brand, quantity) ==
    [id |-> id, name |-> name, category |-> category, brand |-> brand,
     quantity |-> quantity, updated_at |-> clock]

add_supply(name, category, brand, quantity) ==
    /\ Len(supplies) < MaxSupplies
    /\ supplies' = Append(supplies, NewSupply(NextId(supplies), name, category,
                                              brand, quantity))
    /\ last' = [op |-> "add_supply", id |-> NextId(supplies), ok |-> TRUE,
                quantity |-> Some(quantity)]
    /\ UNCHANGED <<usage, projects, pieces, prefs, clock, result, req, agent>>

(***************************************************************************)
(* update_supply: patches the provided fields; the quantity is clamped.    *)
(* quantity is a named parameter, so no **kwargs entry can carry it.       *)
(***************************************************************************)
ClampQuantity_upper_only(quantity) == Min(FULL, quantity)

ClampQuantity(quantity) == Max(0, Min(FULL, quantity))

UpdatedSupply_clears_brand(s, name, quantity) ==
    [s EXCEPT !.name = IF name # None THEN name[1] ELSE @,
              !.quantity = IF quantity # None THEN ClampQuantity(quantity[1]) ELSE @,
              !.brand = None,
              !.updated_at = clock]

UpdatedSupply(s, name, quantity) ==
    [s EXCEPT !.name = IF name # None THEN name[1] ELSE @,
              !.quantity = IF quantity # None THEN ClampQuantity(quantity[1]) ELSE @,
              !.updated_at = clock]

update_supply(supply_id, name, quantity) ==
    LET i == FirstIndex(supplies, supply_id) IN
    /\ IF i = 0
       THEN /\ UNCHANGED supplies
            /\ last' = [op |-> "update_supply", id |-> supply_id, ok |-> FALSE,
                        name |-> name, quantity |-> quantity]
       ELSE /\ supplies' = [supplies EXCEPT ![i] =
                               UpdatedSupply(@, name, quantity)]
            /\ last' = [op |-> "update_supply", id |-> supply_id, ok |-> TRUE,
                        name |-> name, quantity |-> quantity]
    /\ UNCHANGED <<usage, projects, pieces, prefs, clock, result, req, agent>>

(***************************************************************************)
(* use_supply: subtracts the amount, floored at 0, and records the usage   *)
(* (the optional project_id of the usage row is stored as passed and is    *)
(* left out of the row here).                                              *)
(***************************************************************************)
UsedQuantity(quantity, amount_used) == Max(0, quantity - amount_used)

use_supply(supply_id, amount_used) ==
    LET i == FirstIndex(supplies, supply_id) IN
    /\ IF i = 0
       THEN /\ UNCHANGED <<supplies, usage>>
            /\ last' = [op |-> "use_supply", id |-> supply_id, ok |-> FALSE,
                        quantity |-> Some(amount_used)]
       ELSE /\ Len(usage) < MaxUsage
            /\ supplies' = [supplies EXCEPT ![i] =
                               [@ EXCEPT !.quantity = UsedQuantity(@, amount_used),
                                         !.updated_at = clock]]
            /\ usage' = Append(usage, [supply_id |-> supply_id,
                                       quantity_used |-> amount_used])
            /\ last' = [op |-> "use_supply", id |-> supply_id, ok |-> TRUE,
                        quantity |-> Some(amount_used),
                        previous_quantity |-> supplies[i].quantity]
    /\ UNCHANGED <<projects, pieces, prefs, clock, result, req, agent>>

(***************************************************************************)
(* The inventory: add_supply, update_supply and use_supply from an empty   *)
(* database.                                                               *)
(***************************************************************************)
Init ==
    /\ supplies = << >>
    /\ usage = << >>
    /\ projects = << >>
    /\ pieces = << >>
    /\ prefs = << >>
    /\ clock = 0
    /\ last = NoCall
    /\ result = NoCall
    /\ req = NoRequests
    /\ agent = NoAgent

AddSupply ==
    \E name \in SupplyNames, category \in SupplyCategories,
       brand \in SupplyBrands, quantity \in QtyInputs :
        add_supply(name, category, brand, quantity)

UpdateSupply ==
    \E supply_id \in SupplyIds, name \in Opt(SupplyNames),
       quantity \in Opt(QtyInputs) :
        update_supply(supply_id, name, quantity)

UseSupply ==
    \E supply_id \in SupplyIds, amount_used \in UseAmounts :
        use_supply(supply_id, amount_used)

NextInventory == AddSupply \/ UpdateSupply \/ UseSupply

SpecInventory == Init /\ [][NextInventory]_vars

(***************************************************************************)
(* Supply.to_dict and get_supply_by_id: the record a lookup returns, with  *)
(* the derived status.                                                     *)
(***************************************************************************)
to_dict(s) ==
    [id |-> s.id, name |-> s.name, category |-> s.category, brand |-> s.brand,
     quantity |-> s.quantity, status |-> get_status(s.quantity),
     updated_at |-> s.updated_at]

get_supply_by_id(supply_id) ==
    LET i == FirstIndex(supplies, supply_id) IN
    /\ result' = IF i # 0
                  THEN [op |-> "get_supply_by_id", id |-> supply_id, ok |-> TRUE,
                        supply |-> Some(to_dict(supplies[i]))]
                  ELSE [op |-> "get_supply_by_id", id |-> supply_id, ok |-> FALSE,
                        supply |-> None]
    /\ UNCHANGED <<supplies, usage, projects, pieces, prefs, clock, last, req, agent>>

(***************************************************************************)
(* The status function on its own: two stored supplies whose quantities    *)
(* range over every hundredth from below 0 to above 1 (add_supply stores   *)
(* any quantity), read back through get_supply_by_id.                      *)
(***************************************************************************)
StatusQty == (0 - QtyMargin) .. (FULL + QtyMargin)

InitStatus ==
    /\ clock = 0
    /\ supplies \in { << NewSupply(1, <<"a">>, None, None, q1),
                         NewSupply(2, <<"a">>, None, None, q2) >> :
                      q1 \in StatusQty, q2 \in StatusQty }
    /\ usage = << >>
    /\ projects = << >>
    /\ pieces = << >>
    /\ prefs = << >>
    /\ last = NoCall
    /\ result = NoCall
    /\ req = NoRequests
    /\ agent = NoAgent

GetSupplyById == \E supply_id \in {1, 2, 3} : get_supply_by_id(supply_id)

NextStatus == GetSupplyById

SpecStatus == InitStatus /\ [][NextStatus]_vars

(***************************************************************************)
(* Python strings: str.lower() and the substring test `a in b`.            *)
(***************************************************************************)
UpperLetters ==
    << "A", "B", "C", "D", "E", "F", "G", "H", "I", "J", "K", "L", "M",
       "N", "O", "P", "Q", "R", "S", "T", "U", "V", "W", "X", "Y", "Z" >>

LowerLetters ==
    << "a", "b", "c", "d", "e", "f", "g", "h", "i", "j", "k", "l", "m",
       "n", "o", "p", "q", "r", "s", "t", "u", "v", "w", "x", "y", "z" >>

LowerChar(c) ==
    IF \E k \in 1 .. Len(UpperLetters) : UpperLetters[k] = c
    THEN LowerLetters[CHOOSE k \in 1 .. Len(UpperLetters) : UpperLetters[k] = c]
    ELSE c

UpperChar(c) ==
    IF \E k \in 1 .. Len(LowerLetters) : LowerLetters[k] = c
    THEN UpperLetters[CHOOSE k \in 1 .. Len(LowerLetters) : LowerLetters[k] = c]
    ELSE c

lower(str) == [i \in 1 .. Len(str) |-> LowerChar(str[i])]

Contains(needle, hay) ==
    \E k \in 0 .. (Len(hay) - Len(needle)) :
        SubSeq(hay, k + 1, k + Len(needle)) = needle

(***************************************************************************)
(* generate_shopping_list: the key of an inventory record, the dict        *)
(* supply_map built in query order, the name of a material, the search     *)
(* through supply_map and the classification loop.                         *)
(***************************************************************************)
Truthy(optstr) == optstr # None /\ optstr[1] # << >>

SupplyKey_keep_case(s) ==
    IF Truthy(s.brand) THEN s.name \o <<"_">> \o s.brand[1] ELSE s.name

SupplyKey(s) ==
    IF Truthy(s.brand) THEN lower(s.name \o <<"_">> \o s.brand[1]) ELSE lower(s.name)

DictSet_keep_first(map, key, value) ==
    IF \E j \in 1 .. Len(map) : map[j].key = key
    THEN map
    ELSE Append(map, [key |-> key, value |-> value])

DictSet(map, key, value) ==
    IF \E j \in 1 .. Len(map) : map[j].key = key
    THEN [j \in 1 .. Len(map) |->
             IF map[j].key = key THEN [key |-> key, value |-> value] ELSE map[j]]
    ELSE Append(map, [key |-> key, value |-> value])

RECURSIVE BuildSupplyMap(_, _, _)
BuildSupplyMap(all, i, map) ==
    IF i > Len(all) THEN map
    ELSE BuildSupplyMap(all, i + 1, DictSet(map, SupplyKey(all[i]), all[i]))

MaterialName(material) ==
    IF material.isdict
    THEN (IF material.name # None THEN material.name[1] ELSE << >>)
    ELSE material.name[1]

KeyMatches_one_way(material_lower, key) == Contains(material_lower, key)

KeyMatches(material_lower, key) ==
    Contains(material_lower, key) \/ Contains(key, material_lower)

FindSupply(map, material_lower) ==
    IF \E j \in 1 .. Len(map) : KeyMatches(material_lower, map[j].key)
    THEN Some(map[CHOOSE j \in 1 .. Len(map) :
                     /\ KeyMatches(material_lower, map[j].key)
                     /\ \A k \in 1 .. (j - 1) :
                           ~KeyMatches(material_lower, map[k].key)].value)
    ELSE None

IsLowStock_inclusive(quantity) == quantity <= LOW_STOCK

IsLowStock(quantity) == quantity < LOW_STOCK

RECURSIVE CheckMaterials(_, _, _, _, _)
CheckMaterials(materials, i, map, shopping_list, have_list) ==
    IF i > Len(materials)
    THEN [shopping_list |-> shopping_list, already_have |-> have_list]
    ELSE LET material_name == MaterialName(materials[i])
             material_lower == lower(material_name)
             found == FindSupply(map, material_lower)
         IN IF found # None
            THEN IF IsLowStock(found[1].quantity)
                 THEN CheckMaterials(materials, i + 1, map,
                          Append(shopping_list,
                                 [item |-> material_name, reason |-> "low stock",
                                  current_quantity |-> found[1].quantity,
                                  brand |-> found[1].brand]),
                          have_list)
                 ELSE CheckMaterials(materials, i + 1, map, shopping_list,
                          Append(have_list,
                                 [item |-> material_name,
                                  quantity |-> found[1].quantity,
                                  brand |-> found[1].brand]))
            ELSE CheckMaterials(materials, i + 1, map,
                     Append(shopping_list,
                            [item |-> material_name, reason |-> "not in inventory",
                             current_quantity |-> 0]),
                     have_list)

(***************************************************************************)
(* The stored materials_list is the JSON text of the list, or NULL:        *)
(* None is NULL, Some(l) is json.dumps(l), so Some(<< >>) is the text "[]",*)
(* which Python treats as true.                                            *)
(***************************************************************************)
json_loads_drop_last(text) == SubSeq(text[1], 1, Len(text[1]) - 1)

json_loads(text) == text[1]

generate_shopping_list(project_id) ==
    LET p == FirstIndex(projects, project_id) IN
    /\ result' =
         IF p = 0
         THEN [op |-> "generate_shopping_list", id |-> project_id, ok |-> FALSE,
               error |-> "Project not found"]
         ELSE IF projects[p].materials_list = None
         THEN [op |-> "generate_shopping_list", id |-> project_id, ok |-> TRUE,
               shopping_list |-> << >>,
               message |-> "No materials list defined for this project"]
         ELSE LET materials == json_loads(projects[p].materials_list)
                  supply_map == BuildSupplyMap(supplies, 1, << >>)
                  lists == CheckMaterials(materials, 1, supply_map, << >>, << >>)
              IN [op |-> "generate_shopping_list", id |-> project_id, ok |-> TRUE,
                  shopping_list |-> lists.shopping_list,
                  already_have |-> lists.already_have,
                  items_to_buy |-> Len(lists.shopping_list),
                  items_available |-> Len(lists.already_have),
                  estimated_budget |-> projects[p].estimated_budget]
    /\ UNCHANGED <<supplies, usage, projects, pieces, prefs, clock, last, req, agent>>

(***************************************************************************)
(* The shopping-list reconciler on its own: every inventory of up to       *)
(* MaxInventory records and every materials list of up to MaxMaterials     *)
(* materials (or no list), in a database holding one project.              *)
(***************************************************************************)
InvNames == { <<"a">>, <<"A", "b">> }
InvBrands == { None, Some(<<"B">>) }
InvQty == { 5, 25 }

Materials ==
    { [isdict |-> FALSE, name |-> Some(<<"A">>), category |-> None],
      [isdict |-> FALSE, name |-> Some(<<"a", "_", "b">>), category |-> None],
      [isdict |-> FALSE, name |-> Some(<<"c">>), category |-> None],
      [isdict |-> TRUE, name |-> Some(<<"B">>), category |-> Some("paint")],
      [isdict |-> TRUE, name |-> None, category |-> Some("paint")] }

SeqsUpTo(S, n) == UNION { [1 .. k -> S] : k \in 0 .. n }

Inventories ==
    { [i \in 1 .. Len(rows) |->
          [id |-> i, name |-> rows[i][1], category |-> None,
           brand |-> rows[i][2], quantity |-> rows[i][3], updated_at |-> 0]] :
      rows \in SeqsUpTo(InvNames \X InvBrands \X InvQty, MaxInventory) }

NewProject(id, materials_list, estimated_budget) ==
    [id |-> id, status |-> "planned", materials_list |-> materials_list,
     estimated_budget |-> estimated_budget, notes |-> << >>,
     file_path |-> None, updated_at |-> clock, completed_at |-> None]

InitShopping ==
    /\ clock = 0
    /\ supplies \in Inventories
    /\ usage = << >>
    /\ projects \in { << NewProject(1, materials_list, Some(40)) >> :
                      materials_list \in Opt(SeqsUpTo(Materials, MaxMaterials)) }
    /\ pieces = << >>
    /\ prefs = << >>
    /\ last = NoCall
    /\ result = NoCall
    /\ req = NoRequests
    /\ agent = NoAgent

GenerateShoppingList == \E project_id \in {1, 2} : generate_shopping_list(project_id)

NextShopping == GenerateShoppingList

SpecShopping == InitShopping /\ [][NextShopping]_vars

(***************************************************************************)
(* datetime.utcnow() moves on between calls.                               *)
(***************************************************************************)
Tick ==
    /\ clock < MaxClock
    /\ clock' = clock + 1
    /\ last' = [op |-> "Tick", id |-> 0, ok |-> TRUE]
    /\ UNCHANGED <<supplies, usage, projects, pieces, prefs, result, req, agent>>

(***************************************************************************)
(* The completed_at of an updated project or piece. The status branch      *)
(* stamps it when the status moves to "completed" from another value; the  *)
(* **kwargs loop, which runs afterwards, stores a completed_at entry        *)
(* (kw_completed_at) when one is passed.                                   *)
(***************************************************************************)
CompletedAt_first_only(old_status, old_completed_at, status, kw_completed_at, now) ==
    IF kw_completed_at # None THEN kw_completed_at
    ELSE IF status # None /\ status[1] = "completed" /\ old_status # "completed"
            /\ old_completed_at = None
         THEN Some(now)
         ELSE old_completed_at

CompletedAt_every_time(old_status, old_completed_at, status, kw_completed_at, now) ==
    IF kw_completed_at # None THEN kw_completed_at
    ELSE IF status # None /\ status[1] = "completed"
         THEN Some(now)
         ELSE old_completed_at

CompletedAt_not_stamped(old_status, old_completed_at, status, kw_completed_at, now) ==
    IF kw_completed_at # None THEN kw_completed_at ELSE old_completed_at

CompletedAt(old_status, old_completed_at, status, kw_completed_at, now) ==
    IF kw_completed_at # None THEN kw_completed_at
    ELSE IF status # None /\ status[1] = "completed" /\ old_status # "completed"
         THEN Some(now)
         ELSE old_completed_at

(***************************************************************************)
(* update_project.                                                         *)
(***************************************************************************)
UpdatedProject(p, status, materials_list, kw_completed_at) ==
    [p EXCEPT !.status = IF status # None THEN status[1] ELSE @,
              !.completed_at = CompletedAt(p.status, p.completed_at, status,
                                           kw_completed_at, clock),
              !.materials_list = IF materials_list # None THEN materials_list ELSE @,
              !.updated_at = clock]

update_project(project_id, status, materials_list, kw_completed_at) ==
    LET i == FirstIndex(projects, project_id) IN
    /\ IF i = 0
       THEN /\ UNCHANGED projects
            /\ last' = [op |-> "update_project", id |-> project_id, ok |-> FALSE,
                        status |-> status, materials_list |-> materials_list,
                        kw_completed_at |-> kw_completed_at]
       ELSE /\ projects' = [projects EXCEPT ![i] =
                               UpdatedProject(@, status, materials_list, kw_completed_at)]
            /\ last' = [op |-> "update_project", id |-> project_id, ok |-> TRUE,
                        status |-> status, materials_list |-> materials_list,
                        kw_completed_at |-> kw_completed_at,
                        old_status |-> projects[i].status,
                        old_completed_at |-> projects[i].completed_at]
    /\ UNCHANGED <<supplies, usage, pieces, prefs, clock, result, req, agent>>

(***************************************************************************)
(* add_portfolio_piece creates a row like NewPiece; update_portfolio_piece *)
(* patches it. image is what the image_path argument leads to: "none" (no  *)
(* path, or no such file), "copied", or "error" (the copy raises, and the  *)
(* transaction is rolled back).                                            *)
(***************************************************************************)
NewPiece(id, status) ==
    [id |-> id, status |-> status, image_path |-> None, progress_images |-> << >>,
     updated_at |-> clock, completed_at |-> None]

UpdatedPiece(p, status, image, kw_completed_at) ==
    [p EXCEPT !.status = IF status # None THEN status[1] ELSE @,
              !.completed_at = CompletedAt(p.status, p.completed_at, status,
                                           kw_completed_at, clock),
              !.image_path = IF image = "copied" THEN Some("data/portfolio/image") ELSE @,
              !.updated_at = clock]

update_portfolio_piece(piece_id, status, image, kw_completed_at) ==
    LET i == FirstIndex(pieces, piece_id) IN
    /\ IF i = 0 \/ image = "error"
       THEN /\ UNCHANGED pieces
            /\ last' = [op |-> "update_portfolio_piece", id |-> piece_id, ok |-> FALSE,
                        status |-> status, image |-> image,
                        kw_completed_at |-> kw_completed_at]
       ELSE /\ pieces' = [pieces EXCEPT ![i] =
                             UpdatedPiece(@, status, image, kw_completed_at)]
            /\ last' = [op |-> "update_portfolio_piece", id |-> piece_id, ok |-> TRUE,
                        status |-> status, image |-> image,
                        kw_completed_at |-> kw_completed_at,
                        old_status |-> pieces[i].status,
                        old_completed_at |-> pieces[i].completed_at]
    /\ UNCHANGED <<supplies, usage, projects, prefs, clock, result, req, agent>>

(***************************************************************************)
(* add_progress_image: file_exists is os.path.exists(image_path), copy_ok  *)
(* is whether shutil.copy2 returns or raises.                              *)
(***************************************************************************)
StatusAfterProgress_always_wip(status) == "wip"

StatusAfterProgress(status) == IF status = "sketch" THEN "wip" ELSE status

AppendedImages_in_front(progress_images, description) ==
    <<[description |-> description, added_at |-> clock]>> \o progress_images

AppendedImages(progress_images, description) ==
    Append(progress_images, [description |-> description, added_at |-> clock])

add_progress_image(piece_id, file_exists, copy_ok, description) ==
    LET i == FirstIndex(pieces, piece_id) IN
    /\ IF ~file_exists \/ i = 0 \/ ~copy_ok
       THEN /\ UNCHANGED pieces
            /\ last' = [op |-> "add_progress_image", id |-> piece_id, ok |-> FALSE]
       ELSE /\ Len(pieces[i].progress_images) < MaxImages
            /\ pieces' = [pieces EXCEPT ![i] =
                  [@ EXCEPT !.progress_images = AppendedImages(@, description),
                            !.updated_at = clock,
                            !.status = StatusAfterProgress(@)]]
            /\ last' = [op |-> "add_progress_image", id |-> piece_id, ok |-> TRUE,
                        old_status |-> pieces[i].status,
                        progress_count |->
                            Len(AppendedImages(pieces[i].progress_images,
                                               description))]
    /\ UNCHANGED <<supplies, usage, projects, prefs, clock, result, req, agent>>

(***************************************************************************)
(* Inputs of the project and portfolio operations.                         *)
(***************************************************************************)
ProjectStatuses == { "planned", "in_progress", "completed" }
PieceStatuses == { "sketch", "wip", "completed" }
KwTimes == { 0 }

UpdateProject ==
    \E project_id \in {1, 2}, status \in Opt(ProjectStatuses),
       kw_completed_at \in Opt(KwTimes) :
        update_project(project_id, status, None, kw_completed_at)

UpdatePortfolioPiece ==
    \E piece_id \in {1, 2}, status \in Opt(PieceStatuses),
       image \in {"none", "copied", "error"}, kw_completed_at \in Opt(KwTimes) :
        update_portfolio_piece(piece_id, status, image, kw_completed_at)

AddProgressImage ==
    \E piece_id \in {1, 2}, file_exists \in BOOLEAN, copy_ok \in BOOLEAN :
        add_progress_image(piece_id, file_exists, copy_ok, None)

(***************************************************************************)
(* Updates of one project (created by create_project) and one portfolio    *)
(* piece (created by add_portfolio_piece with any status), over time.      *)
(***************************************************************************)
InitCompletion ==
    /\ clock = 0
    /\ supplies = << >>
    /\ usage = << >>
    /\ projects = << NewProject(1, None, None) >>
    /\ pieces \in { << NewPiece(1, status) >> : status \in PieceStatuses }
    /\ prefs = << >>
    /\ last = NoCall
    /\ result = NoCall
    /\ req = NoRequests
    /\ agent = NoAgent

NextCompletion == UpdateProject \/ UpdatePortfolioPiece \/ Tick

SpecCompletion == InitCompletion /\ [][NextCompletion]_vars

(***************************************************************************)
(* The same records updated by calls that pass the status argument alone   *)
(* (no extra keyword arguments, no image).                                 *)
(***************************************************************************)
UpdateProjectStatus ==
    \E project_id \in {1, 2}, status \in Opt(ProjectStatuses) :
        update_project(project_id, status, None, None)

UpdatePieceStatus ==
    \E piece_id \in {1, 2}, status \in Opt(PieceStatuses) :
        update_portfolio_piece(piece_id, status, "none", None)

NextStatusUpdates == UpdateProjectStatus \/ UpdatePieceStatus \/ Tick

SpecStatusUpdates == InitCompletion /\ [][NextStatusUpdates]_vars

(***************************************************************************)
(* One portfolio piece with its updates and progress images, over time.    *)
(***************************************************************************)
InitPortfolio ==
    /\ clock = 0
    /\ supplies = << >>
    /\ usage = << >>
    /\ projects = << >>
    /\ pieces \in { << NewPiece(1, status) >> : status \in PieceStatuses }
    /\ prefs = << >>
    /\ last = NoCall
    /\ result = NoCall
    /\ req = NoRequests
    /\ agent = NoAgent

NextPortfolio == UpdatePortfolioPiece \/ AddProgressImage \/ Tick

SpecPortfolio == InitPortfolio /\ [][NextPortfolio]_vars

(***************************************************************************)
(* save_style_preference: a repeated (category, value) raises the          *)
(* confidence of the stored row, a new one is inserted as given.           *)
(***************************************************************************)
FindPreference(category, value) ==
    IF \E i \in 1 .. Len(prefs) :
          prefs[i].category = category /\ prefs[i].value = value
    THEN CHOOSE i \in 1 .. Len(prefs) :
            /\ prefs[i].category = category /\ prefs[i].value = value
            /\ \A j \in 1 .. (i - 1) :
                  ~(prefs[j].category = category /\ prefs[j].value = value)
    ELSE 0

RaisedConfidence_uncapped(confidence) == confidence + CONFIDENCE_STEP

RaisedConfidence(confidence) == Min(CONFIDENCE_MAX, confidence + CONFIDENCE_STEP)

save_style_preference(category, value, confidence, source) ==
    LET existing == FindPreference(category, value) IN
    /\ IF existing # 0
       THEN /\ prefs' = [prefs EXCEPT ![existing].confidence = RaisedConfidence(@)]
            /\ last' = [op |-> "save_style_preference", id |-> prefs[existing].id,
                        ok |-> TRUE, action |-> "updated",
                        category |-> category, value |-> value,
                        confidence |-> confidence,
                        old_confidence |-> Some(prefs[existing].confidence)]
       ELSE /\ prefs' = Append(prefs, [id |-> NextId(prefs), category |-> category,
                                       value |-> value, confidence |-> confidence,
                                       source |-> source])
            /\ last' = [op |-> "save_style_preference", id |-> NextId(prefs),
                        ok |-> TRUE, action |-> "created",
                        category |-> category, value |-> value,
                        confidence |-> confidence, old_confidence |-> None]
    /\ UNCHANGED <<supplies, usage, projects, pieces, clock, result, req, agent>>

PrefCategories == { "mood", "subject" }
PrefValues == { "calm" }
ConfidenceInputs == { -20, 50, 95, 150 }

SaveStylePreference ==
    \E category \in PrefCategories, value \in PrefValues,
       confidence \in ConfidenceInputs :
        save_style_preference(category, value, confidence, "chat")

NextPrefs == SaveStylePreference

SpecPrefs == Init /\ [][NextPrefs]_vars

(***************************************************************************)
(* get_low_stock_supplies: the rows with quantity <= threshold, ordered by *)
(* quantity and then category (SQLite puts NULL first); rows equal in both *)
(* come in either order.  The result groups them by category and adds a    *)
(* shopping suggestion per row.                                            *)
(***************************************************************************)
DEFAULT_THRESHOLD == 25
CRITICAL_URGENCY == 10

CategoryOrder == << None, Some("brush"), Some("paint") >>

CategoryRank(category) ==
    CHOOSE k \in 1 .. Len(CategoryOrder) : CategoryOrder[k] = category

IsLowStockRow_strict(quantity, threshold) == quantity < threshold

IsLowStockRow(quantity, threshold) == quantity <= threshold

OrderedBefore(s, t) ==
    \/ s.quantity < t.quantity
    \/ /\ s.quantity = t.quantity
       /\ CategoryRank(s.category) <= CategoryRank(t.category)

LowStockRows(threshold) ==
    LET S == { i \in 1 .. Len(supplies) :
                  IsLowStockRow(supplies[i].quantity, threshold) }
    IN { [k \in 1 .. Cardinality(S) |-> supplies[f[k]]] :
         f \in { g \in [1 .. Cardinality(S) -> S] :
                   /\ \A a, b \in 1 .. Cardinality(S) : a # b => g[a] # g[b]
                   /\ \A a, b \in 1 .. Cardinality(S) :
                         a < b => OrderedBefore(supplies[g[a]], supplies[g[b]]) } }

CategoryName(category) == IF category # None THEN category[1] ELSE "uncategorized"

RECURSIVE RowsOfCategory(_, _, _)
RowsOfCategory(rows, cat, i) ==
    IF i > Len(rows) THEN << >>
    ELSE IF CategoryName(rows[i].category) = cat
         THEN <<to_dict(rows[i])>> \o RowsOfCategory(rows, cat, i + 1)
         ELSE RowsOfCategory(rows, cat, i + 1)

Suggestion(s) ==
    [name |-> s.name, brand |-> s.brand, category |-> s.category,
     current_quantity |-> s.quantity,
     urgency |-> IF s.quantity < CRITICAL_URGENCY THEN "critical" ELSE "low"]

get_low_stock_supplies(threshold) ==
    /\ \E rows \in LowStockRows(threshold) :
          result' =
             [op |-> "get_low_stock_supplies", id |-> 0, ok |-> TRUE,
              threshold |-> threshold,
              total_low_stock |-> Len(rows),
              supplies |-> [k \in 1 .. Len(rows) |-> to_dict(rows[k])],
              by_category |->
                 [cat \in { CategoryName(rows[k].category) : k \in 1 .. Len(rows) }
                    |-> RowsOfCategory(rows, cat, 1)],
              shopping_list |-> [k \in 1 .. Len(rows) |-> Suggestion(rows[k])]]
    /\ UNCHANGED <<supplies, usage, projects, pieces, prefs, clock, last, req, agent>>

(***************************************************************************)
(* The low-stock query on its own: two stored supplies with quantities on  *)
(* and around 0.1, 0.25 and 0.5, queried with the default threshold and    *)
(* with thresholds a caller passes.                                        *)
(***************************************************************************)
LowStockQty == { 0, 9, 10, 24, 25, 26, 50 }
Thresholds == { 10, DEFAULT_THRESHOLD, 50 }

InitLowStock ==
    /\ clock = 0
    /\ supplies \in { << NewSupply(1, <<"a">>, c1, None, q1),
                         NewSupply(2, <<"a">>, c2, None, q2) >> :
                      q1 \in LowStockQty, q2 \in LowStockQty,
                      c1 \in Opt({"brush", "paint"}), c2 \in Opt({"brush", "paint"}) }
    /\ usage = << >>
    /\ projects = << >>
    /\ pieces = << >>
    /\ prefs = << >>
    /\ last = NoCall
    /\ result = NoCall
    /\ req = NoRequests
    /\ agent = NoAgent

GetLowStockSupplies == \E threshold \in Thresholds : get_low_stock_supplies(threshold)

NextLowStock == GetLowStockSupplies

SpecLowStock == InitLowStock /\ [][NextLowStock]_vars

(***************************************************************************)
(* create_project_from_query: the first keyword of each hardcoded list     *)
(* that is a substring of the lowered query, the canned materials of the   *)
(* medium, the five fixed steps and the title built from the three parts.  *)
(***************************************************************************)
IsLetter(c) == LowerChar(c) # c \/ UpperChar(c) # c

title(str) ==
    [i \in 1 .. Len(str) |->
        IF i = 1 \/ ~IsLetter(str[i - 1]) THEN UpperChar(str[i])
        ELSE LowerChar(str[i])]

mediums ==
    << <<"w", "a", "t", "e", "r", "c", "o", "l", "o", "r">>,
       <<"o", "i", "l">>,
       <<"a", "c", "r", "y", "l", "i", "c">>,
       <<"p", "e", "n", "c", "i", "l">>,
       <<"i", "n", "k">>,
       <<"p", "a", "s", "t", "e", "l">>,
       <<"c", "h", "a", "r", "c", "o", "a", "l">>,
       <<"m", "i", "x", "e", "d", " ", "m", "e", "d", "i", "a">> >>

styles ==
    << <<"l", "a", "n", "d", "s", "c", "a", "p", "e">>,
       <<"p", "o", "r", "t", "r", "a", "i", "t">>,
       <<"s", "t", "i", "l", "l", " ", "l", "i", "f", "e">>,
       <<"a", "b", "s", "t", "r", "a", "c", "t">>,
       <<"b", "o", "t", "a", "n", "i", "c", "a", "l">>,
       <<"s", "e", "a", "s", "c", "a", "p", "e">>,
       <<"c", "i", "t", "y", "s", "c", "a", "p", "e">> >>

subjects ==
    << <<"s", "u", "n", "f", "l", "o", "w", "e", "r">>,
       <<"f", "l", "o", "w", "e", "r">>,
       <<"m", "o", "u", "n", "t", "a", "i", "n">>,
       <<"o", "c", "e", "a", "n">>,
       <<"t", "r", "e", "e">>,
       <<"b", "i", "r", "d">>,
       <<"s", "u", "n", "s", "e", "t">>,
       <<"f", "o", "r", "e", "s", "t">> >>

RECURSIVE FirstKeyword_no_break(_, _, _)
FirstKeyword_no_break(keywords, text, i) ==
    IF i > Len(keywords) THEN None
    ELSE LET later == FirstKeyword_no_break(keywords, text, i + 1)
         IN IF later # None THEN later
            ELSE IF Contains(keywords[i], text) THEN Some(keywords[i])
            ELSE None

RECURSIVE FirstKeyword(_, _, _)
FirstKeyword(keywords, text, i) ==
    IF i > Len(keywords) THEN None
    ELSE IF Contains(keywords[i], text) THEN Some(keywords[i])
    ELSE FirstKeyword(keywords, text, i + 1)

SuggestedMaterials(medium) ==
    IF medium = Some(mediums[1])
    THEN << [name |-> "Watercolor paper", category |-> "paper"],
            [name |-> "Round brush #6", category |-> "brush"],
            [name |-> "Flat brush 1 inch", category |-> "brush"],
            [name |-> "Primary colors set", category |-> "paint"] >>
    ELSE IF medium = Some(mediums[2])
    THEN << [name |-> "Stretched canvas", category |-> "canvas"],
            [name |-> "Oil paint set", category |-> "paint"],
            [name |-> "Linseed oil", category |-> "medium"],
            [name |-> "Filbert brush set", category |-> "brush"] >>
    ELSE IF medium = Some(mediums[3])
    THEN << [name |-> "Canvas board", category |-> "canvas"],
            [name |-> "Acrylic paint set", category |-> "paint"],
            [name |-> "Flat brush set", category |-> "brush"] >>
    ELSE << >>

SuggestedSteps ==
    << [step |-> 1, description |-> "Gather reference images and plan composition"],
       [step |-> 2, description |-> "Sketch initial composition"],
       [step |-> 3, description |-> "Block in main shapes and values"],
       [step |-> 4, description |-> "Add details and refine"],
       [step |-> 5, description |-> "Final touches and evaluation"] >>

RECURSIVE JoinWords(_, _)
JoinWords(parts, i) ==
    IF i > Len(parts) THEN << >>
    ELSE IF i = Len(parts) THEN parts[i]
    ELSE parts[i] \o <<" ">> \o JoinWords(parts, i + 1)

ProjectTitle(subject, style, medium) ==
    LET title_parts ==
            (IF Truthy(subject) THEN <<title(subject[1])>> ELSE << >>)
            \o (IF Truthy(style) THEN <<title(style[1])>> ELSE << >>)
            \o (IF Truthy(medium) THEN <<<<"i", "n", " ">> \o title(medium[1])>>
                ELSE << >>)
    IN IF title_parts # << >> THEN JoinWords(title_parts, 1)
       ELSE <<"N", "e", "w", " ", "A", "r", "t", " ", "P", "r", "o", "j", "e", "c", "t">>

create_project_from_query(query, budget) ==
    LET query_lower == lower(query)
        medium == FirstKeyword(mediums, query_lower, 1)
        style == FirstKeyword(styles, query_lower, 1)
        subject == FirstKeyword(subjects, query_lower, 1)
    IN /\ result' =
            [op |-> "create_project_from_query", id |-> 0, ok |-> TRUE,
             query |-> query,
             suggested_project |->
                [title |-> ProjectTitle(subject, style, medium),
                 description |-> query, medium |-> medium, style |-> style,
                 subject |-> subject,
                 materials_list |-> SuggestedMaterials(medium),
                 steps |-> SuggestedSteps, estimated_budget |-> budget],
             parsed_from_query |->
                [medium |-> medium, style |-> style, subject |-> subject,
                 budget_constraint |-> budget]]
       /\ UNCHANGED <<supplies, usage, projects, pieces, prefs, clock, last, req, agent>>

(***************************************************************************)
(* The planner on its own: the request body of /api/projects/suggest holds *)
(* a query of up to MaxWords words, in mixed case, some holding a keyword  *)
(* inside another word or inside another keyword, and a budget.            *)
(***************************************************************************)
MaxWords == 2

QueryWords ==
    { <<"O", "i", "l">>,
      <<"w", "a", "t", "e", "r", "c", "o", "l", "o", "r">>,
      <<"p", "i", "n", "k">>,
      <<"p", "o", "r", "t", "r", "a", "i", "t">>,
      <<"L", "A", "N", "D", "S", "C", "A", "P", "E">>,
      <<"s", "u", "n", "f", "l", "o", "w", "e", "r">>,
      <<"f", "l", "o", "w", "e", "r">>,
      <<"t", "r", "e", "e">>,
      <<"c", "a", "t">> }

Queries == { JoinWords(ws, 1) : ws \in SeqsUpTo(QueryWords, MaxWords) }

Budgets == { None, Some(40) }

InitPlanner ==
    /\ supplies = << >>
    /\ usage = << >>
    /\ projects = << >>
    /\ pieces = << >>
    /\ prefs = << >>
    /\ clock = 0
    /\ last \in { [op |-> "suggest", id |-> 0, ok |-> TRUE,
                    query |-> query, budget |-> budget] :
                  query \in Queries, budget \in Budgets }
    /\ result = NoCall
    /\ req = NoRequests
    /\ agent = NoAgent

CreateProjectFromQuery ==
    /\ last.op = "suggest"
    /\ create_project_from_query(last.query, last.budget)

NextPlanner == CreateProjectFromQuery

SpecPlanner == InitPlanner /\ [][NextPlanner]_vars

(***************************************************************************)
(* One update call on a database that holds two rows of each table: the    *)
(* rows were written at time 0 and the call is made at time 1, with an id  *)
(* of the first row, of the second row, or of no row.                      *)
(***************************************************************************)
StoredAt(row, time) == [row EXCEPT !.updated_at = time]

InitFrame ==
    /\ clock = 1
    /\ supplies = << StoredAt(NewSupply(1, <<"a">>, Some("paint"), None, 60), 0),
                     StoredAt(NewSupply(2, <<"A", "b">>, None, Some(<<"B">>), 100), 0) >>
    /\ usage = << >>
    /\ projects \in
          { << [StoredAt(NewProject(1, None, Some(40)), 0) EXCEPT
                   !.status = status,
                   !.completed_at = IF status = "completed" THEN Some(0) ELSE None],
               StoredAt(NewProject(2, Some(<< >>), None), 0) >> :
            status \in ProjectStatuses }
    /\ pieces \in
          { << [StoredAt(NewPiece(1, status), 0) EXCEPT
                   !.completed_at = IF status = "completed" THEN Some(0) ELSE None],
               StoredAt(NewPiece(2, "sketch"), 0) >> :
            status \in PieceStatuses }
    /\ prefs = << >>
    /\ last = NoCall
    /\ result = NoCall
    /\ req = NoRequests
    /\ agent = NoAgent

PatchSupply ==
    /\ last = NoCall
    /\ \E supply_id \in {1, 2, 3}, name \in Opt(SupplyNames),
          quantity \in Opt(QtyInputs) :
          update_supply(supply_id, name, quantity)

PatchProject ==
    /\ last = NoCall
    /\ \E project_id \in {1, 2, 3}, status \in Opt(ProjectStatuses),
          materials_list \in Opt({ << >> }), kw_completed_at \in Opt(KwTimes) :
          update_project(project_id, status, materials_list, kw_completed_at)

PatchPiece ==
    /\ last = NoCall
    /\ \E piece_id \in {1, 2, 3}, status \in Opt(PieceStatuses),
          image \in {"none", "copied", "error"}, kw_completed_at \in Opt(KwTimes) :
          update_portfolio_piece(piece_id, status, image, kw_completed_at)

NextFrame == PatchSupply \/ PatchProject \/ PatchPiece

SpecFrame == InitFrame /\ [][NextFrame]_vars

(***************************************************************************)
(* The store functions step by step.  A call runs the statements before    *)
(* the session is opened and SessionLocal() (Call), the query for the row  *)
(* (QueryFirst), the body up to db.commit() and the statements after it    *)
(* (Commit), the except block (Except) and the finally block (Finally).    *)
(* What the environment can do to a step (a missing file, a raised         *)
(* exception) is an outcome or fault parameter of the step.                *)
(*                                                                         *)
(* The session keeps the row it loaded; the body changes that copy, and    *)
(* the flush at commit issues an UPDATE of the columns whose value differs *)
(* from the loaded one, whatever the stored row holds by then.             *)
(***************************************************************************)
SupplyOps == { "get_supply_by_id", "update_supply", "use_supply" }

ProjectOps == { "get_project", "update_project", "save_project_to_file",
                "generate_shopping_list", "add_session_notes" }

PieceOps == { "get_portfolio_piece", "update_portfolio_piece",
              "add_progress_image", "delete_portfolio_piece" }

ReadOps == { "get_supply_by_id", "get_project", "generate_shopping_list",
             "get_portfolio_piece" }

TableOf(op) ==
    IF op \in SupplyOps THEN supplies
    ELSE IF op \in ProjectOps THEN projects
    ELSE pieces

NotFoundError(op) ==
    IF op \in SupplyOps THEN "Supply not found"
    ELSE IF op \in ProjectOps THEN "Project not found"
    ELSE "Portfolio piece not found"

Success == [ok |-> TRUE]

Failure(error) == [ok |-> FALSE, error |-> error]

Database ==
    [supplies |-> supplies, usage |-> usage, projects |-> projects,
     pieces |-> pieces]

PreSessionOutcomes(op) ==
    IF op = "add_progress_image" THEN {"ok", "return", "raise"}
    ELSE IF op = "save_project_to_file" THEN {"ok", "raise"}
    ELSE {"ok"}

Call(r, op, id, arg, outcome) ==
    /\ req[r].pc = "idle"
    /\ outcome \in PreSessionOutcomes(op)
    /\ req' = [req EXCEPT ![r] =
                  [pc |-> IF outcome = "ok" THEN "try"
                          ELSE IF outcome = "return" THEN "returned"
                          ELSE "raised",
                   op |-> op, id |-> id, arg |-> arg,
                   session |-> IF outcome = "ok" THEN "open" ELSE "none",
                   row |-> None,
                   ret |-> IF outcome = "return"
                           THEN Some(Failure("Image file not found"))
                           ELSE None,
                   seq |-> 0, written |-> {}, before |-> Database]]
    /\ UNCHANGED <<supplies, usage, projects, pieces, prefs, clock, last, result, agent>>

first_any_row(table, id) == IF Len(table) > 0 THEN Some(table[1]) ELSE None

first(table, id) ==
    IF FirstIndex(table, id) # 0 THEN Some(table[FirstIndex(table, id)]) ELSE None

QueryFirst(r, raises) ==
    LET c == req[r]
        row == first(TableOf(c.op), c.id)
    IN /\ c.pc = "try"
       /\ req' = [req EXCEPT ![r] =
                     IF raises THEN [c EXCEPT !.pc = "except"]
                     ELSE IF row = None
                     THEN [c EXCEPT !.pc = "finally",
                                    !.ret = Some(Failure(NotFoundError(c.op)))]
                     ELSE [c EXCEPT !.pc = "loaded", !.row = row]]
       /\ UNCHANGED <<supplies, usage, projects, pieces, prefs, clock, last, result, agent>>

Patched(op, row, arg) ==
    CASE op = "update_supply" -> UpdatedSupply(row, arg.name, arg.quantity)
      [] op = "use_supply" ->
            [row EXCEPT !.quantity = UsedQuantity(@, arg.amount_used),
                        !.updated_at = clock]
      [] op = "update_project" ->
            UpdatedProject(row, arg.status, arg.materials_list, arg.kw_completed_at)
      [] op = "save_project_to_file" ->
            [row EXCEPT !.file_path = Some("data/projects/file"),
                        !.updated_at = clock]
      [] op = "add_session_notes" ->
            [row EXCEPT !.notes = Append(@, [timestamp |-> clock,
                                            notes |-> arg.notes]),
                        !.updated_at = clock]
      [] op = "update_portfolio_piece" ->
            UpdatedPiece(row, arg.status, arg.image, arg.kw_completed_at)
      [] op = "add_progress_image" ->
            [row EXCEPT !.progress_images =
                            Append(@, [description |-> arg.description,
                                       added_at |-> clock]),
                        !.updated_at = clock,
                        !.status = StatusAfterProgress(@)]
      [] OTHER -> row

DirtyColumns(loaded, new) == { f \in DOMAIN loaded : new[f] # loaded[f] }

Flush_if_unchanged(table, loaded, new) ==
    [i \in 1 .. Len(table) |->
        IF table[i] = loaded THEN new ELSE table[i]]

Flush(table, loaded, new) ==
    [i \in 1 .. Len(table) |->
        IF table[i].id = loaded.id
        THEN [f \in DOMAIN table[i] |->
                 IF f \in DirtyColumns(loaded, new) THEN new[f] ELSE table[i][f]]
        ELSE table[i]]

Deleted(table, row) ==
    SelectSeq(table, LAMBDA t : t.id # row.id)

Faults(op) ==
    IF op \in ReadOps \/ op = "delete_portfolio_piece"
    THEN {"none", "before_commit"}
    ELSE {"none", "before_commit", "after_commit"}

Commit(r, fault) ==
    LET c == req[r]
        row == c.row[1]
        new == Patched(c.op, row, c.arg)
        writes == fault # "before_commit" /\ c.op \notin ReadOps
    IN /\ c.pc = "loaded"
       /\ fault \in Faults(c.op)
       /\ supplies' = IF writes /\ c.op \in SupplyOps
                      THEN Flush(supplies, row, new) ELSE supplies
       /\ usage' = IF writes /\ c.op = "use_supply"
                   THEN Append(usage, [supply_id |-> c.id,
                                       quantity_used |-> c.arg.amount_used])
                   ELSE usage
       /\ projects' = IF writes /\ c.op \in ProjectOps
                      THEN Flush(projects, row, new) ELSE projects
       /\ pieces' = IF writes /\ c.op = "delete_portfolio_piece"
                    THEN Deleted(pieces, row)
                    ELSE IF writes /\ c.op \in PieceOps
                    THEN Flush(pieces, row, new) ELSE pieces
       /\ req' = [req EXCEPT ![r] =
                     [c EXCEPT !.pc = IF fault = "none" THEN "finally" ELSE "except",
                               !.ret = IF fault = "none" THEN Some(Success) ELSE @,
                               !.written = IF writes THEN DirtyColumns(row, new)
                                           ELSE {},
                               !.row = Some(new),
                               !.seq = IF writes
                                       THEN 1 + Cardinality(
                                                { q \in Requests :
                                                    /\ req[q].pc # "idle"
                                                    /\ req[q].seq > 0 })
                                       ELSE 0]]
       /\ UNCHANGED <<prefs, clock, last, result, agent>>

Except(r) ==
    /\ req[r].pc = "except"
    /\ req' = [req EXCEPT ![r] =
                  [@ EXCEPT !.pc = "finally",
                            !.ret = Some(Failure("exception text"))]]
    /\ UNCHANGED <<supplies, usage, projects, pieces, prefs, clock, last, result, agent>>

Finally_on_success(r) ==
    /\ req[r].pc = "finally"
    /\ req' = [req EXCEPT ![r] =
                  [@ EXCEPT !.pc = "returned",
                            !.session = IF req[r].ret[1].ok THEN "closed" ELSE @]]
    /\ UNCHANGED <<supplies, usage, projects, pieces, prefs, clock, last, result, agent>>

Finally(r) ==
    /\ req[r].pc = "finally"
    /\ req' = [req EXCEPT ![r] = [@ EXCEPT !.pc = "returned", !.session = "closed"]]
    /\ UNCHANGED <<supplies, usage, projects, pieces, prefs, clock, last, result, agent>>

(***************************************************************************)
(* One call of a store function at a time, on a database with one row per  *)
(* table, with the id of that row or of no row, under every fault.         *)
(***************************************************************************)
NoArg == [none |-> TRUE]

StoreCalls ==
    { [op |-> op, arg |-> NoArg] :
        op \in ReadOps \cup {"save_project_to_file"} }
    \cup { [op |-> "update_supply", arg |-> [name |-> name, quantity |-> quantity]] :
             name \in Opt({ <<"A", "b">> }), quantity \in Opt({ 30 }) }
    \cup { [op |-> "use_supply", arg |-> [amount_used |-> amount_used]] :
             amount_used \in { 25 } }
    \cup { [op |-> "update_project",
            arg |-> [status |-> status, materials_list |-> None,
                     kw_completed_at |-> None]] :
             status \in Opt({ "completed" }) }
    \cup { [op |-> "add_session_notes", arg |-> [notes |-> "n"]] }
    \cup { [op |-> "update_portfolio_piece",
            arg |-> [status |-> status, image |-> image,
                     kw_completed_at |-> None]] :
             status \in Opt({ "completed" }), image \in {"none", "copied"} }
    \cup { [op |-> "add_progress_image", arg |-> [description |-> None]] }
    \cup { [op |-> "delete_portfolio_piece", arg |-> [delete_files |-> delete_files]] :
             delete_files \in BOOLEAN }

InitSessions ==
    /\ clock = 1
    /\ supplies = << StoredAt(NewSupply(1, <<"a">>, Some("paint"), None, 60), 0) >>
    /\ usage = << >>
    /\ projects \in { << StoredAt(NewProject(1, materials_list, Some(40)), 0) >> :
                      materials_list \in { None, Some(<< >>) } }
    /\ pieces \in { << StoredAt(NewPiece(1, status), 0) >> : status \in PieceStatuses }
    /\ prefs = << >>
    /\ last = NoCall
    /\ result = NoCall
    /\ req = NoRequests
    /\ agent = NoAgent

SessionCall ==
    \E call \in StoreCalls, id \in {1, 2},
       outcome \in {"ok", "return", "raise"} :
        Call(1, call.op, id, call.arg, outcome)

SessionQuery == \E raises \in BOOLEAN : QueryFirst(1, raises)

SessionCommit == \E fault \in {"none", "before_commit", "after_commit"} : Commit(1, fault)

SessionExcept == Except(1)

SessionFinally == Finally(1)

NextSessions ==
    SessionCall \/ SessionQuery \/ SessionCommit \/ SessionExcept \/ SessionFinally

SpecSessions == InitSessions /\ [][NextSessions]_vars

(***************************************************************************)
(* Two requests on the same supply, each one call of update_supply or      *)
(* use_supply in its own session, their steps interleaved in any order.    *)
(* No step waits for the other request: the code takes no lock and checks  *)
(* no version, and each commit is one step.                                *)
(***************************************************************************)
SupplyCalls ==
    { call \in StoreCalls : call.op \in {"update_supply", "use_supply"} }

InitConcurrent ==
    /\ clock = 1
    /\ supplies = << StoredAt(NewSupply(1, <<"a">>, Some("paint"), None, 60), 0) >>
    /\ usage = << >>
    /\ projects = << >>
    /\ pieces = << >>
    /\ prefs = << >>
    /\ last = NoCall
    /\ result = NoCall
    /\ req = NoRequests
    /\ agent = NoAgent

ConcurrentCall ==
    \E r \in Requests, call \in SupplyCalls : Call(r, call.op, 1, call.arg, "ok")

ConcurrentQuery == \E r \in Requests : QueryFirst(r, FALSE)

ConcurrentCommit == \E r \in Requests : Commit(r, "none")

ConcurrentFinally == \E r \in Requests : Finally(r)

NextConcurrent ==
    ConcurrentCall \/ ConcurrentQuery \/ ConcurrentCommit \/ ConcurrentFinally

SpecConcurrent == InitConcurrent /\ [][NextConcurrent]_vars

(***************************************************************************)
(* POST /api/chat.  agent is the module-level singleton of app/agent.py:   *)
(* whether _agent_instance is set, and whether its client and agent_id     *)
(* are.  fault is where the agent runtime fails during the request, if the *)
(* request gets there: importing app.agent, create_client, the calls of    *)
(* _get_or_create_agent, or client.send_message; reply is the list of      *)
(* messages the runtime answers with.                                      *)
(***************************************************************************)
RuntimeFaults == {"none", "import", "create_client", "get_or_create_agent", "send"}

initialize(a, fault) ==
    IF fault = "create_client"
    THEN [agent |-> a, raised |-> TRUE, failed_at |-> "initialize"]
    ELSE IF fault = "get_or_create_agent"
    THEN [agent |-> [a EXCEPT !.client = TRUE], raised |-> TRUE,
          failed_at |-> "initialize"]
    ELSE [agent |-> [a EXCEPT !.client = TRUE, !.agent_id = TRUE],
          raised |-> FALSE, failed_at |-> "none"]

get_agent(a, fault) ==
    IF ~a.instance
    THEN initialize([instance |-> TRUE, client |-> FALSE, agent_id |-> FALSE,
                     constructed |-> a.constructed + 1], fault)
    ELSE [agent |-> a, raised |-> FALSE, failed_at |-> "none"]

RECURSIVE AssistantMessages(_, _)
AssistantMessages(reply, i) ==
    IF i > Len(reply) THEN << >>
    ELSE IF reply[i].assistant_message # None /\ reply[i].assistant_message[1] # ""
         THEN <<reply[i].assistant_message[1]>> \o AssistantMessages(reply, i + 1)
         ELSE AssistantMessages(reply, i + 1)

RECURSIVE ToolCalls(_, _)
ToolCalls(reply, i) ==
    IF i > Len(reply) THEN << >>
    ELSE IF reply[i].tool_call # None
         THEN <<[name |-> reply[i].tool_call[1]]>> \o ToolCalls(reply, i + 1)
         ELSE ToolCalls(reply, i + 1)

SendFailed_raises == [raised |-> TRUE, failed_at |-> "send"]

SendFailed ==
    [raised |-> FALSE, failed_at |-> "send", response |-> Failure("exception text")]

send_message(a, fault, reply) ==
    LET init == IF ~a.client \/ ~a.agent_id THEN initialize(a, fault)
                ELSE [agent |-> a, raised |-> FALSE, failed_at |-> "none"]
    IN IF init.raised THEN init
       ELSE IF fault = "send"
       THEN [agent |-> init.agent] @@ SendFailed
       ELSE [agent |-> init.agent, raised |-> FALSE, failed_at |-> "none",
             response |->
                [ok |-> TRUE,
                 response |-> IF AssistantMessages(reply, 1) # << >>
                              THEN AssistantMessages(reply, 1)
                              ELSE <<"I processed your request.">>,
                 tool_calls |-> ToolCalls(reply, 1)]]

Fallback ==
    [ok |-> TRUE, fallback |-> TRUE, response |-> <<"I received your message">>,
     error_details |-> "exception text"]

chat(message, fault, reply) ==
    LET got == IF fault = "import"
               THEN [agent |-> agent, raised |-> TRUE, failed_at |-> "initialize"]
               ELSE get_agent(agent, fault)
        sent == IF got.raised THEN got ELSE send_message(got.agent, fault, reply)
        call == [op |-> "chat", id |-> 0]
    IN /\ IF message = ""
          THEN /\ result' = call @@ [status |-> 400, failed_at |-> "none"]
                                 @@ Failure("No message provided")
               /\ UNCHANGED agent
          ELSE /\ agent' = sent.agent
               /\ result' =
                     call @@ [status |-> 200, failed_at |-> sent.failed_at]
                          @@ (IF sent.raised THEN Fallback ELSE sent.response)
       /\ last' = call @@ [ok |-> TRUE, message |-> message, fault |-> fault,
                           reply |-> reply]
       /\ UNCHANGED <<supplies, usage, projects, pieces, prefs, clock, req>>

(***************************************************************************)
(* The chat endpoint on its own: requests with an empty or a non-empty     *)
(* message, one after the other, the runtime failing at any point of any   *)
(* of them.                                                                *)
(***************************************************************************)
MaxReply == 2

ReplyMessages ==
    { [assistant_message |-> None, tool_call |-> None],
      [assistant_message |-> Some(""), tool_call |-> None],
      [assistant_message |-> Some("hi"), tool_call |-> None],
      [assistant_message |-> None, tool_call |-> Some("use_supply")] }

ChatMessages == {"", "hello"}

Chat ==
    \E message \in ChatMessages, fault \in RuntimeFaults,
       reply \in SeqsUpTo(ReplyMessages, MaxReply) :
        chat(message, fault, reply)

NextChat == Chat

SpecChat == Init /\ [][NextChat]_vars

(***************************************************************************)
(* Pinterest: get_pinterest_boards and search_pinterest_inspiration.       *)
(* token is whether PINTEREST_ACCESS_TOKEN is set; http is what            *)
(* requests.get does: it raises, or it answers with a status code and,     *)
(* for 200, the items of the JSON body.  The username only selects the     *)
(* URL of the request.                                                     *)
(***************************************************************************)
MockBoards ==
    << [id |-> "1", name |-> "Watercolor Landscapes", pin_count |-> 45],
       [id |-> "2", name |-> "Botanical Art", pin_count |-> 32],
       [id |-> "3", name |-> "Color Palettes", pin_count |-> 28],
       [id |-> "4", name |-> "Brush Techniques", pin_count |-> 19] >>

PinterestError_as_mock(error) == [ok |-> TRUE, source |-> "mock"]

PinterestError(error) == Failure(error)

get_pinterest_boards(username, token, http) ==
    /\ result' =
          [op |-> "get_pinterest_boards", id |-> 0] @@
          (IF ~token
           THEN [ok |-> TRUE, source |-> "mock", boards |-> MockBoards,
                 message |-> "Using mock data"]
           ELSE IF http.raises THEN PinterestError("exception text")
           ELSE IF http.status = 200
           THEN [ok |-> TRUE, source |-> "pinterest_api", boards |-> http.items]
           ELSE PinterestError("Pinterest API error") @@ [message |-> "response text"])
    /\ last' = [op |-> "get_pinterest_boards", id |-> 0, ok |-> TRUE,
                token |-> token, http |-> http]
    /\ UNCHANGED <<supplies, usage, projects, pieces, prefs, clock, req, agent>>

WATERCOLOR == <<"w", "a", "t", "e", "r", "c", "o", "l", "o", "r">>

LANDSCAPE == <<"l", "a", "n", "d", "s", "c", "a", "p", "e">>

SUNFLOWER == <<"s", "u", "n", "f", "l", "o", "w", "e", "r">>

FLOWER == <<"f", "l", "o", "w", "e", "r">>

RECURSIVE PadToLimit(_, _, _)
PadToLimit(results, query, limit) ==
    IF Len(results) < limit
    THEN PadToLimit(Append(results,
                           [title |-> "Art Inspiration", number |-> Len(results) + 1,
                            description |-> query,
                            style_tags |-> <<"inspiration", "art", "creative">>]),
                    query, limit)
    ELSE results

Head_n(seq, n) == SubSeq(seq, 1, Min(n, Len(seq)))

_generate_mock_inspiration(query, limit) ==
    LET query_lower == lower(query)
        results ==
            (IF Contains(WATERCOLOR, query_lower)
             THEN << [title |-> "Loose Watercolor Landscape"],
                     [title |-> "Watercolor Sunset Study"] >>
             ELSE << >>)
            \o (IF Contains(LANDSCAPE, query_lower)
                THEN << [title |-> "Mountain Vista"], [title |-> "Coastal Scene"] >>
                ELSE << >>)
            \o (IF Contains(SUNFLOWER, query_lower) \/ Contains(FLOWER, query_lower)
                THEN << [title |-> "Sunflower Field"], [title |-> "Floral Study"] >>
                ELSE << >>)
    IN Head_n(PadToLimit(results, query, limit), limit)

_analyze_mock_style(query) ==
    LET query_lower == lower(query)
        w == Contains(WATERCOLOR, query_lower)
        l == Contains(LANDSCAPE, query_lower)
        s == Contains(SUNFLOWER, query_lower)
    IN [suggested_techniques |->
            (IF w THEN <<"wet-on-wet", "glazing", "lifting">> ELSE << >>)
            \o (IF l THEN <<"atmospheric perspective">> ELSE << >>),
        color_palette |->
            (IF w THEN <<"transparent washes", "soft edges">> ELSE << >>)
            \o (IF s THEN <<"cadmium yellow", "burnt sienna", "ultramarine blue">>
                ELSE << >>),
        mood |-> (IF l THEN <<"serene">> ELSE << >>)
                 \o (IF s THEN <<"cheerful">> ELSE << >>),
        difficulty |-> "intermediate"]

PinResult(pin) ==
    [id |-> pin.id,
     title |-> IF pin.title # None THEN pin.title[1] ELSE "Untitled",
     description |-> IF pin.description # None THEN pin.description[1] ELSE "",
     dominant_color |-> pin.dominant_color]

_analyze_pinterest_style(pins) ==
    [dominant_colors |->
        { pins[k].dominant_color[1] :
            k \in { j \in 1 .. Len(pins) : Truthy(pins[j].dominant_color) } },
     common_themes |->
        Head_n(SelectSeq([k \in 1 .. Len(pins) |-> pins[k].description],
                         LAMBDA d : d # ""), 5),
     pin_count |-> Len(pins)]

search_pinterest_inspiration(query, limit, token, http) ==
    /\ result' =
          [op |-> "search_pinterest_inspiration", id |-> 0] @@
          (IF ~token
           THEN [ok |-> TRUE, source |-> "mock", query |-> query,
                 results |-> _generate_mock_inspiration(query, limit),
                 style_analysis |-> _analyze_mock_style(query),
                 message |-> "Using mock data"]
           ELSE IF http.raises THEN PinterestError("exception text")
           ELSE IF http.status = 200
           THEN LET results == [k \in 1 .. Len(http.items) |-> PinResult(http.items[k])]
                IN [ok |-> TRUE, source |-> "pinterest_api", query |-> query,
                    results |-> results,
                    style_analysis |-> _analyze_pinterest_style(results)]
           ELSE PinterestError("Pinterest API error"))
    /\ last' = [op |-> "search_pinterest_inspiration", id |-> 0, ok |-> TRUE,
                token |-> token, http |-> http]
    /\ UNCHANGED <<supplies, usage, projects, pieces, prefs, clock, req, agent>>

(***************************************************************************)
(* The Pinterest functions on their own, with and without a token, the     *)
(* request raising, answering 200 with up to MaxPins items, or answering   *)
(* another status.                                                         *)
(***************************************************************************)
MaxPins == 1

Pins ==
    [id : {"p"}, title : {None, Some("t")}, description : {None, Some("d")},
     dominant_color : {None, Some(<<"r", "e", "d">>)}]

HttpOutcomes ==
    { [raises |-> TRUE] }
    \cup { [raises |-> FALSE, status |-> status] : status \in {401, 500} }
    \cup { [raises |-> FALSE, status |-> 200, items |-> items] :
             items \in SeqsUpTo(Pins, MaxPins) }

PinWords == { <<"W", "a", "t", "e", "r", "c", "o", "l", "o", "r">>, <<"f", "l", "o", "w", "e", "r">>, <<"c", "a", "t">> }

PinQueries == { JoinWords(ws, 1) : ws \in SeqsUpTo(PinWords, 2) }

PinLimits == { 1, 3, 10 }

PinterestRequests ==
    [op : {"call"}, id : {0}, ok : {TRUE}, fn : {"get_pinterest_boards"},
     username : Opt({"u"}), token : BOOLEAN, http : HttpOutcomes]
    \cup
    [op : {"call"}, id : {0}, ok : {TRUE}, fn : {"search_pinterest_inspiration"},
     query : PinQueries, limit : PinLimits, token : BOOLEAN, http : HttpOutcomes]

InitPinterest ==
    /\ supplies = << >>
    /\ usage = << >>
    /\ projects = << >>
    /\ pieces = << >>
    /\ prefs = << >>
    /\ clock = 0
    /\ result = NoCall
    /\ req = NoRequests
    /\ agent = NoAgent
    /\ last \in PinterestRequests

GetPinterestBoards ==
    /\ last.op = "call"
    /\ last.fn = "get_pinterest_boards"
    /\ get_pinterest_boards(last.username, last.token, last.http)

SearchPinterestInspiration ==
    /\ last.op = "call"
    /\ last.fn = "search_pinterest_inspiration"
    /\ search_pinterest_inspiration(last.query, last.limit, last.token, last.http)

NextPinterest == GetPinterestBoards \/ SearchPinterestInspiration

SpecPinterest == InitPinterest /\ [][NextPinterest]_vars

(***************************************************************************)
(* The REST layer.  A JSON value is a number (in hundredths), a string or  *)
(* null; a query-string argument is always a string.  float() parses a     *)
(* string of digits with an optional fraction and raises ValueError on     *)
(* any other text and TypeError on None.  request.get_json() on a request  *)
(* without a JSON body returns None or answers with an HTTP error page,    *)
(* depending on the Flask release.  A view that returns jsonify(x) alone   *)
(* answers with status 200.                                                *)
(***************************************************************************)
Number(n) == [kind |-> "number", value |-> n]

String(text) == [kind |-> "string", text |-> text]

Null == [kind |-> "null"]

Digits == <<"0", "1", "2", "3", "4", "5", "6", "7", "8", "9">>

IsDigit(c) == \E d \in 1 .. 10 : Digits[d] = c

DigitValue(c) == (CHOOSE d \in 1 .. 10 : Digits[d] = c) - 1

RECURSIVE Natural(_, _)
Natural(text, acc) ==
    IF text = << >> THEN acc
    ELSE Natural(Tail(text), 10 * acc + DigitValue(Head(text)))

AllDigits(text) == text # << >> /\ \A k \in 1 .. Len(text) : IsDigit(text[k])

ValueError == [raised |-> TRUE, exception |-> "ValueError"]

float(v) ==
    IF v.kind = "number" THEN [raised |-> FALSE, value |-> v.value]
    ELSE IF v.kind = "null" THEN [raised |-> TRUE, exception |-> "TypeError"]
    ELSE LET dots == { k \in 1 .. Len(v.text) : v.text[k] = "." } IN
         IF dots = {}
         THEN IF AllDigits(v.text)
              THEN [raised |-> FALSE, value |-> 100 * Natural(v.text, 0)]
              ELSE ValueError
         ELSE LET dot == CHOOSE k \in dots : TRUE
                  whole == SubSeq(v.text, 1, dot - 1)
                  fraction == SubSeq(v.text, dot + 1, Len(v.text))
              IN IF AllDigits(whole) /\ AllDigits(fraction) /\ Len(fraction) <= 2
                 THEN [raised |-> FALSE,
                       value |-> 100 * Natural(whole, 0)
                                 + Natural(fraction \o (IF Len(fraction) = 1
                                                         THEN <<"0">> ELSE << >>), 0)]
                 ELSE ValueError

truthy(v) ==
    IF v.kind = "number" THEN v.value # 0
    ELSE IF v.kind = "string" THEN v.text # << >>
    ELSE FALSE

NoBody == [kind |-> "missing"]

FlaskReleases == {"returns_none", "unsupported_media_type"}

get_json(body, flask) ==
    IF body # NoBody THEN [raised |-> FALSE, data |-> Some(body)]
    ELSE IF flask = "returns_none" THEN [raised |-> FALSE, data |-> None]
    ELSE [raised |-> TRUE, status |-> 415]

Unhandled(route, exception) ==
    [op |-> route, id |-> 0, status |-> 500, exception |-> exception]

ErrorPage(route, status) ==
    [op |-> route, id |-> 0, status |-> status, exception |-> "HTTPException"]

status_code(response) ==
    IF "status" \in DOMAIN response THEN response.status ELSE 200

api_chat(body, flask, fault, reply) ==
    LET got == get_json(body, flask) IN
    IF got.raised
    THEN /\ result' = ErrorPage("chat", got.status)
         /\ UNCHANGED <<supplies, usage, projects, pieces, prefs, clock, last, req,
                        agent>>
    ELSE IF got.data = None
    THEN /\ result' = Unhandled("chat", "AttributeError")
         /\ UNCHANGED <<supplies, usage, projects, pieces, prefs, clock, last, req,
                        agent>>
    ELSE chat(IF body.message # None THEN body.message[1] ELSE "", fault, reply)

api_low_stock(threshold_arg) ==
    LET threshold == IF threshold_arg # None THEN float(String(threshold_arg[1]))
                     ELSE float(Number(DEFAULT_THRESHOLD))
    IN IF threshold.raised
       THEN /\ result' = Unhandled("api_low_stock", threshold.exception)
            /\ UNCHANGED <<supplies, usage, projects, pieces, prefs, clock, last,
                           req, agent>>
       ELSE get_low_stock_supplies(threshold.value)

api_add_supply(body, flask) ==
    LET got == get_json(body, flask)
        route == "api_add_supply"
        leave == UNCHANGED <<supplies, usage, projects, pieces, prefs, clock, last,
                             req, agent>>
    IN IF got.raised THEN result' = ErrorPage(route, got.status) /\ leave
       ELSE IF got.data = None THEN result' = Unhandled(route, "AttributeError") /\ leave
       ELSE LET quantity == IF body.quantity # None THEN float(body.quantity[1])
                            ELSE float(Number(FULL))
            IN IF quantity.raised
               THEN result' = Unhandled(route, quantity.exception) /\ leave
               ELSE IF body.name = None
               THEN result' = [op |-> route, id |-> 0] @@ Failure("IntegrityError")
                    /\ leave
               ELSE LET supply == NewSupply(NextId(supplies), body.name[1],
                                            body.category, None, quantity.value)
                    IN /\ Len(supplies) < MaxSupplies
                       /\ supplies' = Append(supplies, supply)
                       /\ result' = [op |-> route, id |-> supply.id, ok |-> TRUE,
                                     message |-> "Added to inventory",
                                     supply |-> to_dict(supply)]
                       /\ last' = [op |-> "add_supply", id |-> supply.id, ok |-> TRUE,
                                   quantity |-> Some(quantity.value)]
                       /\ UNCHANGED <<usage, projects, pieces, prefs, clock, req,
                                      agent>>

api_suggest_project(body, flask) ==
    LET got == get_json(body, flask)
        route == "api_suggest_project"
        leave == UNCHANGED <<supplies, usage, projects, pieces, prefs, clock, last,
                             req, agent>>
    IN IF got.raised THEN result' = ErrorPage(route, got.status) /\ leave
       ELSE IF got.data = None THEN result' = Unhandled(route, "AttributeError") /\ leave
       ELSE LET query == IF body.query # None THEN body.query[1] ELSE << >>
                budget == IF body.budget # None /\ truthy(body.budget[1])
                          THEN float(body.budget[1])
                          ELSE [raised |-> FALSE, value |-> 0]
            IN IF budget.raised
               THEN result' = Unhandled(route, budget.exception) /\ leave
               ELSE create_project_from_query(
                        query,
                        IF body.budget # None /\ truthy(body.budget[1])
                        THEN Some(budget.value) ELSE None)

(***************************************************************************)
(* The endpoints on their own: requests without a JSON body, with the      *)
(* fields absent, null, numeric and not numeric, against an inventory of   *)
(* at most MaxSupplies + 1 rows.                                           *)
(***************************************************************************)
NumberTexts ==
    { <<"0", ".", "1">>, <<"0", ".", "2", "5">>, <<"1">>, <<"a", "b", "c">>, << >> }

JsonNumbers ==
    { Null, Number(0), Number(50) } \cup { String(text) : text \in NumberTexts }

ChatBodies == { NoBody } \cup [kind : {"object"}, message : {None, Some(""), Some("hello")}]

SupplyBodies ==
    { NoBody }
    \cup [kind : {"object"}, name : Opt(SupplyNames), category : SupplyCategories,
          quantity : Opt(JsonNumbers)]

SuggestBodies ==
    { NoBody }
    \cup [kind : {"object"}, query : Opt({ <<"c", "a", "t">>, <<"O", "i", "l">> }),
          budget : Opt(JsonNumbers)]

RouteReplies == { << >>, <<[assistant_message |-> Some("hi"), tool_call |-> None]>> }

RouteRequests ==
    [op : {"request"}, id : {0}, ok : {TRUE}, route : {"chat"}, body : ChatBodies,
     flask : FlaskReleases, fault : RuntimeFaults, reply : RouteReplies]
    \cup
    [op : {"request"}, id : {0}, ok : {TRUE}, route : {"api_low_stock"},
     threshold : Opt(NumberTexts)]
    \cup
    [op : {"request"}, id : {0}, ok : {TRUE}, route : {"api_add_supply"},
     body : SupplyBodies, flask : FlaskReleases]
    \cup
    [op : {"request"}, id : {0}, ok : {TRUE}, route : {"api_suggest_project"},
     body : SuggestBodies, flask : FlaskReleases]

InitRoutes ==
    /\ clock = 0
    /\ supplies \in { << >> } \cup
                    { << NewSupply(1, <<"a">>, Some("paint"), None, quantity) >> :
                         quantity \in {9, 25, 60} }
    /\ usage = << >>
    /\ projects = << >>
    /\ pieces = << >>
    /\ prefs = << >>
    /\ last \in RouteRequests
    /\ result = NoCall
    /\ req = NoRequests
    /\ agent = NoAgent

ApiChat ==
    /\ last.op = "request"
    /\ last.route = "chat"
    /\ api_chat(last.body, last.flask, last.fault, last.reply)

ApiLowStock ==
    /\ last.op = "request"
    /\ last.route = "api_low_stock"
    /\ api_low_stock(last.threshold)

ApiAddSupply ==
    /\ last.op = "request"
    /\ last.route = "api_add_supply"
    /\ api_add_supply(last.body, last.flask)

ApiSuggestProject ==
    /\ last.op = "request"
    /\ last.route = "api_suggest_project"
    /\ api_suggest_project(last.body, last.flask)

NextRoutes == ApiChat \/ ApiLowStock \/ ApiAddSupply \/ ApiSuggestProject

SpecRoutes == InitRoutes /\ [][NextRoutes]_vars

(***************************************************************************)
(* create_project and add_session_notes, and the projects table under      *)
(* create_project, update_project with any status argument, and            *)
(* add_session_notes, over time.  project_title is the title argument; the *)
(* column is NOT NULL, so the insert of a project without one fails.       *)
(***************************************************************************)
ProjectIds == { 1 }
MaxNotes == 1

create_project(project_title, materials_list, estimated_budget) ==
    /\ IF project_title = None
       THEN /\ UNCHANGED projects
            /\ last' = [op |-> "create_project", id |-> 0, ok |-> FALSE]
       ELSE /\ NextId(projects) \in ProjectIds
            /\ projects' = Append(projects,
                                  NewProject(NextId(projects), materials_list,
                                             estimated_budget))
            /\ last' = [op |-> "create_project", id |-> NextId(projects), ok |-> TRUE]
    /\ UNCHANGED <<supplies, usage, pieces, prefs, clock, result, req, agent>>

add_session_notes(project_id, notes) ==
    LET i == FirstIndex(projects, project_id) IN
    /\ IF i = 0
       THEN /\ UNCHANGED projects
            /\ last' = [op |-> "add_session_notes", id |-> project_id, ok |-> FALSE]
       ELSE /\ Len(projects[i].notes) < MaxNotes
            /\ projects' = [projects EXCEPT ![i] =
                  [@ EXCEPT !.notes = Append(@, [timestamp |-> clock, notes |-> notes]),
                            !.updated_at = clock]]
            /\ last' = [op |-> "add_session_notes", id |-> project_id, ok |-> TRUE]
    /\ UNCHANGED <<supplies, usage, pieces, prefs, clock, result, req, agent>>

StatusArguments == ProjectStatuses \cup { "archived" }

CreateProject ==
    \E project_title \in Opt({"t"}) : create_project(project_title, None, None)

UpdateProjectAnyStatus ==
    \E project_id \in {1, 2}, status \in Opt(StatusArguments),
       kw_completed_at \in Opt(KwTimes) :
        update_project(project_id, status, None, kw_completed_at)

AddSessionNotes ==
    \E project_id \in {1, 2} : add_session_notes(project_id, "n")

NextProjects == CreateProject \/ UpdateProjectAnyStatus \/ AddSessionNotes \/ Tick

SpecProjects == Init /\ [][NextProjects]_vars

(***************************************************************************)
(* add_portfolio_piece, and the portfolio table under add_portfolio_piece  *)
(* and update_portfolio_piece with any status argument and                 *)
(* add_progress_image, over time.  The title column is NOT NULL, so the    *)
(* insert of a piece without a title fails, as does one whose image copy   *)
(* raises.                                                                 *)
(***************************************************************************)
PieceIds == { 1 }

add_portfolio_piece(piece_title, status, image) ==
    /\ IF piece_title = None \/ image = "error"
       THEN /\ UNCHANGED pieces
            /\ last' = [op |-> "add_portfolio_piece", id |-> 0, ok |-> FALSE,
                        status |-> status]
       ELSE /\ NextId(pieces) \in PieceIds
            /\ pieces' = Append(pieces,
                  [NewPiece(NextId(pieces), status) EXCEPT
                      !.image_path = IF image = "copied"
                                     THEN Some("data/portfolio/image") ELSE None])
            /\ last' = [op |-> "add_portfolio_piece", id |-> NextId(pieces),
                        ok |-> TRUE, status |-> status]
    /\ UNCHANGED <<supplies, usage, projects, prefs, clock, result, req, agent>>

PieceStatusArguments == PieceStatuses \cup { "archived" }

AddPortfolioPiece ==
    \E piece_title \in Opt({"t"}), status \in PieceStatusArguments,
       image \in {"none", "copied", "error"} :
        add_portfolio_piece(piece_title, status, image)

UpdatePieceAnyStatus ==
    \E piece_id \in {1, 2}, status \in Opt(PieceStatusArguments),
       kw_completed_at \in Opt(KwTimes) :
        update_portfolio_piece(piece_id, status, "none", kw_completed_at)

NextPieces == AddPortfolioPiece \/ UpdatePieceAnyStatus \/ AddProgressImage \/ Tick

SpecPieces == Init /\ [][NextPieces]_vars

(***************************************************************************)
(* Progress images of two portfolio pieces, over time.                     *)
(***************************************************************************)
InitProgress ==
    /\ clock = 0
    /\ supplies = << >>
    /\ usage = << >>
    /\ projects = << >>
    /\ pieces \in { << NewPiece(1, status), NewPiece(2, "wip") >> :
                      status \in {"sketch", "completed"} }
    /\ prefs = << >>
    /\ last = NoCall
    /\ result = NoCall
    /\ req = NoRequests
    /\ agent = NoAgent

AddProgressImageToAny ==
    \E piece_id \in {1, 2, 3}, file_exists \in BOOLEAN, copy_ok \in BOOLEAN,
       description \in Opt({"d"}) :
        add_progress_image(piece_id, file_exists, copy_ok, description)

NextProgress == AddProgressImageToAny \/ Tick

SpecProgress == InitProgress /\ [][NextProgress]_vars

(***************************************************************************)
(* save_style_preference step by step, for requests that run at the same   *)
(* time: the session is opened, the existence query reads the committed    *)
(* rows, and the commit writes what that read decided, an UPDATE of the    *)
(* confidence raised from the value that was loaded, or an INSERT of a new *)
(* row.  Nothing is locked between the query and the commit.               *)
(***************************************************************************)
PreferenceCall(r, category, value, confidence) ==
    /\ req[r].pc = "idle"
    /\ req' = [req EXCEPT ![r] =
                  [pc |-> "try", op |-> "save_style_preference",
                   category |-> category, value |-> value,
                   confidence |-> confidence, session |-> "open",
                   existing |-> None, ret |-> None]]
    /\ UNCHANGED <<supplies, usage, projects, pieces, prefs, clock, last, result, agent>>

PreferenceQuery(r) ==
    /\ req[r].pc = "try"
    /\ LET i == FindPreference(req[r].category, req[r].value) IN
       req' = [req EXCEPT ![r] =
                  [@ EXCEPT !.pc = "commit",
                            !.existing = IF i # 0 THEN Some(prefs[i]) ELSE None]]
    /\ UNCHANGED <<supplies, usage, projects, pieces, prefs, clock, last, result, agent>>

PreferenceCommit(r) ==
    /\ req[r].pc = "commit"
    /\ IF req[r].existing # None
       THEN LET row == req[r].existing[1]
                i == FirstIndex(prefs, row.id)
                stored == [row EXCEPT !.confidence = RaisedConfidence(@)]
            IN /\ prefs' = [prefs EXCEPT ![i].confidence = stored.confidence]
               /\ req' = [req EXCEPT ![r] =
                             [@ EXCEPT !.pc = "finally",
                                       !.ret = Some(Success @@ [action |-> "updated",
                                                                preference |-> stored])]]
       ELSE LET pref == [id |-> NextId(prefs), category |-> req[r].category,
                         value |-> req[r].value, confidence |-> req[r].confidence,
                         source |-> "chat"]
            IN /\ prefs' = Append(prefs, pref)
               /\ req' = [req EXCEPT ![r] =
                             [@ EXCEPT !.pc = "finally",
                                       !.ret = Some(Success @@ [action |-> "created",
                                                                preference |-> pref])]]
    /\ UNCHANGED <<supplies, usage, projects, pieces, clock, last, result, agent>>

ConcurrentPreferenceCall ==
    \E r \in Requests, category \in PrefCategories, value \in PrefValues,
       confidence \in {50, 95} :
        PreferenceCall(r, category, value, confidence)

ConcurrentPreferenceQuery == \E r \in Requests : PreferenceQuery(r)

ConcurrentPreferenceCommit == \E r \in Requests : PreferenceCommit(r)

NextConcurrentPrefs ==
    \/ ConcurrentPreferenceCall
    \/ ConcurrentPreferenceQuery
    \/ ConcurrentPreferenceCommit
    \/ ConcurrentFinally

SpecConcurrentPrefs == Init /\ [][NextConcurrentPrefs]_vars

(***************************************************************************)
(* get_agent called on its own, between chat requests, the runtime failing *)
(* or not while the new instance is initialized.                           *)
(***************************************************************************)
GetAgent ==
    \E fault \in {"none", "create_client", "get_or_create_agent"} :
        LET got == get_agent(agent, fault) IN
        /\ agent' = got.agent
        /\ last' = [op |-> "get_agent", id |-> 0, ok |-> ~got.raised, fault |-> fault,
                    returned |-> IF got.raised THEN None ELSE Some(got.agent)]
        /\ UNCHANGED <<supplies, usage, projects, pieces, prefs, clock, result, req>>

NextAgent == GetAgent \/ Chat

SpecAgent == Init /\ [][NextAgent]_vars

(***************************************************************************)
(* C1. update_supply stores max(0, min(1, q)) for every quantity q it is   *)
(* given, so the quantity it stores lies in [0,1].                         *)
(***************************************************************************)
C1_UpdateSupplyClamps ==
    (last.op = "update_supply" /\ last.ok /\ last.quantity # None) =>
        LET q == last.quantity[1]
            stored == supplies[FirstIndex(supplies, last.id)].quantity
        IN /\ stored = (IF q < 0 THEN 0 ELSE IF q > 100 THEN 100 ELSE q)
           /\ 0 <= stored /\ stored <= 100

C1_Witness ==
    /\ last.op = "update_supply" /\ last.ok
    /\ last.quantity = Some(150)
    /\ supplies[FirstIndex(supplies, last.id)].quantity = 100

(***************************************************************************)
(* C2. get_status gives green (plenty) for q >= 0.5, yellow (low) for      *)
(* 0.25 <= q < 0.5 and red (critical) for q < 0.25, and the level of a     *)
(* larger quantity is never worse than the level of a smaller one.         *)
(***************************************************************************)
StatusRank(status) ==
    CASE status = "red" -> 0
      [] status = "yellow" -> 1
      [] status = "green" -> 2

C2_StatusBoundaries ==
    [][ (result'.op = "get_supply_by_id" /\ result'.ok) =>
          LET d == result'.supply[1] IN
          /\ d.quantity >= 50 => d.status = "green"
          /\ (d.quantity >= 25 /\ d.quantity < 50) => d.status = "yellow"
          /\ d.quantity < 25 => d.status = "red"
          /\ (result.op = "get_supply_by_id" /\ result.ok) =>
                LET e == result.supply[1] IN
                e.quantity <= d.quantity =>
                    StatusRank(e.status) <= StatusRank(d.status) ]_vars

C2_Witness ==
    /\ result.op = "get_supply_by_id" /\ result.ok
    /\ result.supply[1].quantity = 50
    /\ result.supply[1].status = "green"
    /\ supplies[2].quantity = 49

(***************************************************************************)
(* Vocabulary of the shopping-list claims: the result that lists both      *)
(* partitions, the matching rule as the specification words it, and the    *)
(* materials at a set of positions.                                        *)
(***************************************************************************)
ListedResult ==
    /\ result.op = "generate_shopping_list"
    /\ result.ok
    /\ projects[FirstIndex(projects, result.id)].materials_list # None

ListedMaterials == projects[FirstIndex(projects, result.id)].materials_list[1]

RuleKey(s) ==
    IF s.brand # None /\ s.brand[1] # << >>
    THEN lower(s.name \o <<"_">> \o s.brand[1])
    ELSE lower(s.name)

RuleMatches(item, s) ==
    \/ Contains(lower(item), RuleKey(s))
    \/ Contains(RuleKey(s), lower(item))

MatchingRows(item) == { k \in 1 .. Len(supplies) : RuleMatches(item, supplies[k]) }

RECURSIVE NamesAt(_, _, _)
NamesAt(materials, S, i) ==
    IF i > Len(materials) THEN << >>
    ELSE IF i \in S
         THEN <<MaterialName(materials[i])>> \o NamesAt(materials, S, i + 1)
         ELSE NamesAt(materials, S, i + 1)

Items(list) == [j \in 1 .. Len(list) |-> list[j].item]

(***************************************************************************)
(* C3. generate_shopping_list puts every material in exactly one of the    *)
(* two lists, in order: the buy list with reason "low stock" when its      *)
(* matched record has quantity < 0.25, the buy list with reason "not in    *)
(* inventory" when no record matches, the already-have list when its       *)
(* matched record has quantity >= 0.25.                                    *)
(***************************************************************************)
C3_Partition ==
    ListedResult =>
        LET mats == ListedMaterials
            buy == result.shopping_list
            have == result.already_have
            all == 1 .. Len(mats)
        IN /\ \E S \in SUBSET all :
                 /\ Items(buy) = NamesAt(mats, S, 1)
                 /\ Items(have) = NamesAt(mats, all \ S, 1)
           /\ \A j \in 1 .. Len(buy) :
                 \/ /\ buy[j].reason = "not in inventory"
                    /\ MatchingRows(buy[j].item) = {}
                 \/ /\ buy[j].reason = "low stock"
                    /\ buy[j].current_quantity < 25
                    /\ \E k \in MatchingRows(buy[j].item) :
                          supplies[k].quantity = buy[j].current_quantity
           /\ \A j \in 1 .. Len(have) :
                 /\ have[j].quantity >= 25
                 /\ \E k \in MatchingRows(have[j].item) :
                       supplies[k].quantity = have[j].quantity

C3_Witness ==
    /\ ListedResult
    /\ Len(ListedMaterials) = 2
    /\ Len(result.shopping_list) = 1
    /\ result.shopping_list[1].reason = "low stock"
    /\ Len(result.already_have) = 1

(***************************************************************************)
(* C9 as stated. A material that matches several records is classified by  *)
(* the first matching record in the order the supplies query returned.     *)
(***************************************************************************)
ClassifiedBy(item, row) ==
    IF row.quantity < 25
    THEN \E j \in 1 .. Len(result.shopping_list) :
            /\ result.shopping_list[j].item = item
            /\ result.shopping_list[j].reason = "low stock"
            /\ result.shopping_list[j].current_quantity = row.quantity
            /\ result.shopping_list[j].brand = row.brand
    ELSE \E j \in 1 .. Len(result.already_have) :
            /\ result.already_have[j].item = item
            /\ result.already_have[j].quantity = row.quantity
            /\ result.already_have[j].brand = row.brand

FirstMatch(item) ==
    CHOOSE k \in MatchingRows(item) : \A m \in MatchingRows(item) : k <= m

C9_FirstRecordWins ==
    ListedResult =>
        \A i \in 1 .. Len(ListedMaterials) :
            LET item == MaterialName(ListedMaterials[i]) IN
            MatchingRows(item) # {} =>
                ClassifiedBy(item, supplies[FirstMatch(item)])

(***************************************************************************)
(* C9 as amended. The material is classified by the first matching record  *)
(* in query order, except that when later records have the same key as     *)
(* that record, the last record with that key is the one used.             *)
(***************************************************************************)
LastWithKeyOf(f) ==
    CHOOSE g \in 1 .. Len(supplies) :
        /\ RuleKey(supplies[g]) = RuleKey(supplies[f])
        /\ \A m \in 1 .. Len(supplies) :
              RuleKey(supplies[m]) = RuleKey(supplies[f]) => m <= g

C9_FirstKeyLastRecordWins ==
    ListedResult =>
        \A i \in 1 .. Len(ListedMaterials) :
            LET item == MaterialName(ListedMaterials[i]) IN
            MatchingRows(item) # {} =>
                ClassifiedBy(item, supplies[LastWithKeyOf(FirstMatch(item))])

C9_Witness ==
    /\ ListedResult
    /\ Len(supplies) = 2
    /\ supplies[1].name = <<"a">> /\ supplies[1].brand = None
    /\ supplies[1].quantity = 5
    /\ supplies[2].name = <<"a">> /\ supplies[2].brand = None
    /\ supplies[2].quantity = 25
    /\ Len(result.already_have) = 1
    /\ result.already_have[1].item = <<"A">>
    /\ result.already_have[1].quantity = 25

(***************************************************************************)
(* C10. A material matches an inventory record exactly when its lowercased *)
(* name is a substring of the record's lowercased key (name, or name and   *)
(* brand) or that key is a substring of the lowercased name; a material    *)
(* is listed as "not in inventory" exactly when no record matches it,      *)
(* whatever the letter case and whatever its category.                     *)
(***************************************************************************)
C10_MatchingRule ==
    ListedResult =>
        \A i \in 1 .. Len(ListedMaterials) :
            LET item == MaterialName(ListedMaterials[i])
                missing == \E j \in 1 .. Len(result.shopping_list) :
                              /\ result.shopping_list[j].item = item
                              /\ result.shopping_list[j].reason = "not in inventory"
                stocked == \/ \E j \in 1 .. Len(result.shopping_list) :
                                 /\ result.shopping_list[j].item = item
                                 /\ result.shopping_list[j].reason = "low stock"
                           \/ \E j \in 1 .. Len(result.already_have) :
                                 result.already_have[j].item = item
            IN /\ (MatchingRows(item) = {}) <=> missing
               /\ (MatchingRows(item) # {}) <=> stocked

C10_Witness ==
    /\ ListedResult
    /\ Len(supplies) = 1
    /\ supplies[1].name = <<"A", "b">> /\ supplies[1].brand = Some(<<"B">>)
    /\ ListedMaterials = << [isdict |-> FALSE, name |-> Some(<<"A">>), category |-> None],
                            [isdict |-> TRUE, name |-> Some(<<"B">>), category |-> Some("paint")] >>
    /\ Len(result.already_have) + Len(result.shopping_list) = 2
    /\ \A j \in 1 .. Len(result.shopping_list) :
          result.shopping_list[j].reason = "low stock"

(***************************************************************************)
(* Vocabulary of the completed_at claims: the last call was a successful   *)
(* update of a project or a piece, and the record it updated.              *)
(***************************************************************************)
UpdateDone == last.op \in {"update_project", "update_portfolio_piece"} /\ last.ok

UpdatedRecord ==
    IF last.op = "update_project"
    THEN projects[FirstIndex(projects, last.id)]
    ELSE pieces[FirstIndex(pieces, last.id)]

(***************************************************************************)
(* C4 as stated. Once completed_at has a value, no later update of the     *)
(* project or piece changes it (here: no update that passes no             *)
(* completed_at keyword), also when the status left "completed" and is     *)
(* set to "completed" again.                                               *)
(***************************************************************************)
C4_CompletedAtSetOnce ==
    (UpdateDone /\ last.kw_completed_at = None /\ last.old_completed_at # None) =>
        UpdatedRecord.completed_at = last.old_completed_at

(***************************************************************************)
(* C4 as amended. An update that passes no completed_at keyword sets       *)
(* completed_at to the time of the call when it moves the status from a    *)
(* value other than "completed" to "completed" (the first time and every   *)
(* later time), and leaves completed_at unchanged otherwise.               *)
(***************************************************************************)
C4_CompletedAtOnEachCompletion ==
    (UpdateDone /\ last.kw_completed_at = None) =>
        UpdatedRecord.completed_at =
            (IF last.status = Some("completed") /\ last.old_status # "completed"
             THEN Some(clock)
             ELSE last.old_completed_at)

C4_Witness ==
    /\ UpdateDone /\ last.kw_completed_at = None
    /\ last.status = Some("completed")
    /\ last.old_status # "completed"
    /\ last.old_completed_at = Some(0)
    /\ UpdatedRecord.completed_at = Some(1)

(***************************************************************************)
(* C5 as stated. An update called with status "completed" leaves           *)
(* completed_at unchanged when the status already is "completed", and      *)
(* sets it (to the time of the call) when it is not.                       *)
(***************************************************************************)
C5_CompletedUpdate ==
    (UpdateDone /\ last.status = Some("completed")) =>
        IF last.old_status = "completed"
        THEN UpdatedRecord.completed_at = last.old_completed_at
        ELSE UpdatedRecord.completed_at = Some(clock)

(***************************************************************************)
(* C5 as amended. The same, for an update that passes no completed_at      *)
(* among its extra keyword arguments.                                      *)
(***************************************************************************)
C5_CompletedUpdateNoKeyword ==
    (UpdateDone /\ last.status = Some("completed") /\ last.kw_completed_at = None) =>
        IF last.old_status = "completed"
        THEN UpdatedRecord.completed_at = last.old_completed_at
        ELSE UpdatedRecord.completed_at = Some(clock)

C5_Witness ==
    /\ UpdateDone /\ last.status = Some("completed") /\ last.kw_completed_at = None
    /\ last.old_status = "completed"
    /\ last.old_completed_at = Some(0)
    /\ clock = 1
    /\ UpdatedRecord.completed_at = Some(0)

(***************************************************************************)
(* C6. A successful add_progress_image turns the status "sketch" into      *)
(* "wip" and leaves every other status as it was.                          *)
(***************************************************************************)
C6_ProgressAdvancesSketch ==
    (last.op = "add_progress_image" /\ last.ok) =>
        pieces[FirstIndex(pieces, last.id)].status =
            (IF last.old_status = "sketch" THEN "wip" ELSE last.old_status)

C6_Witness ==
    /\ last.op = "add_progress_image" /\ last.ok
    /\ last.old_status = "completed"
    /\ pieces[FirstIndex(pieces, last.id)].status = "completed"
    /\ Len(pieces[FirstIndex(pieces, last.id)].progress_images) = 1

(***************************************************************************)
(* C7. With sequential save_style_preference calls the store holds at most *)
(* one row per (category, value): the first call for a pair creates the    *)
(* row with the confidence given, each later call reports "updated" and    *)
(* stores min(1.0, old + 0.1).                                             *)
(***************************************************************************)
C7_RepeatedPreference ==
    /\ \A i, j \in 1 .. Len(prefs) :
          (prefs[i].category = prefs[j].category /\ prefs[i].value = prefs[j].value)
              => i = j
    /\ (last.op = "save_style_preference" /\ last.ok) =>
          \E i \in 1 .. Len(prefs) :
              /\ prefs[i].category = last.category /\ prefs[i].value = last.value
              /\ IF last.old_confidence = None
                 THEN /\ last.action = "created"
                      /\ prefs[i].confidence = last.confidence
                 ELSE /\ last.action = "updated"
                      /\ prefs[i].confidence =
                            (IF last.old_confidence[1] + 10 > 100 THEN 100
                             ELSE last.old_confidence[1] + 10)

C7_Witness ==
    /\ last.op = "save_style_preference" /\ last.action = "updated"
    /\ last.old_confidence = Some(95)
    /\ Len(prefs) = 2
    /\ prefs[FirstIndex(prefs, last.id)].confidence = 100

(***************************************************************************)
(* C8. The stored quantity of every supply lies in [0,1].                  *)
(***************************************************************************)
C8_QuantityInUnitInterval ==
    \A i \in 1 .. Len(supplies) :
        0 <= supplies[i].quantity /\ supplies[i].quantity <= 100

(***************************************************************************)
(* C11. Every successful generate_shopping_list result carries the counts  *)
(* and the budget: items_to_buy is the length of the buy list,             *)
(* items_available the length of the already-have list, their sum the      *)
(* number of materials, estimated_budget the stored one; a project with no *)
(* materials list included.                                                *)
(***************************************************************************)
ShoppingOk == result.op = "generate_shopping_list" /\ result.ok

ShoppingProject == projects[FirstIndex(projects, result.id)]

CountsReported ==
    /\ {"already_have", "items_to_buy", "items_available", "estimated_budget"}
          \subseteq DOMAIN result
    /\ result.items_to_buy = Len(result.shopping_list)
    /\ result.items_available = Len(result.already_have)
    /\ result.estimated_budget = ShoppingProject.estimated_budget

C11_CountsInEveryResult ==
    ShoppingOk =>
        /\ CountsReported
        /\ result.items_to_buy + result.items_available =
              (IF ShoppingProject.materials_list = None THEN 0
               ELSE Len(ShoppingProject.materials_list[1]))

(***************************************************************************)
(* C11, as the code has it: the counts and the budget are reported when    *)
(* the stored materials_list is not NULL (the text "[]" included, with     *)
(* both counts 0); for a NULL materials_list the result is the early       *)
(* return, an empty shopping_list and a message, with no counts, no        *)
(* already_have list and no estimated_budget.                              *)
(***************************************************************************)
C11_CountsWhenMaterialsStored ==
    ShoppingOk =>
        IF ShoppingProject.materials_list # None
        THEN /\ CountsReported
             /\ result.items_to_buy + result.items_available =
                   Len(ShoppingProject.materials_list[1])
        ELSE /\ DOMAIN result = {"op", "id", "ok", "shopping_list", "message"}
             /\ result.shopping_list = << >>

C11_Witness ==
    /\ ShoppingOk
    /\ ShoppingProject.materials_list # None
    /\ result.items_to_buy = 1
    /\ result.items_available = 1
    /\ result.estimated_budget = Some(40)

(***************************************************************************)
(* C12. get_low_stock_supplies classifies as the status function does:     *)
(* with the default threshold it returns a supply exactly when its status  *)
(* is critical (red, quantity < 0.25), and with a threshold t exactly when *)
(* quantity < t.                                                           *)
(***************************************************************************)
LowStockAsked == result.op = "get_low_stock_supplies" /\ result.ok

Returned(i) ==
    \E k \in 1 .. Len(result.supplies) : result.supplies[k].id = supplies[i].id

C12_LowStockIsCritical ==
    LowStockAsked =>
        \A i \in 1 .. Len(supplies) :
            /\ Returned(i) <=> supplies[i].quantity < result.threshold
            /\ result.threshold = 25 =>
                  (Returned(i) <=> get_status(supplies[i].quantity) = "red")

(***************************************************************************)
(* C12, as the code has it: the query returns a supply exactly when its    *)
(* quantity is <= the threshold, each once, in order of quantity; with the *)
(* default threshold that is every critical (red) supply and also a supply *)
(* at exactly 0.25, whose status is low (yellow).                          *)
(***************************************************************************)
C12_LowStockInclusive ==
    LowStockAsked =>
        /\ \A i \in 1 .. Len(supplies) :
              Returned(i) <=> supplies[i].quantity <= result.threshold
        /\ result.total_low_stock = Len(result.supplies)
        /\ \A a, b \in 1 .. Len(result.supplies) :
              a < b => /\ result.supplies[a].id # result.supplies[b].id
                       /\ result.supplies[a].quantity <= result.supplies[b].quantity
        /\ result.threshold = 25 =>
              \A i \in 1 .. Len(supplies) :
                  Returned(i) <=> \/ get_status(supplies[i].quantity) = "red"
                                  \/ supplies[i].quantity = 25

C12_Witness ==
    /\ LowStockAsked
    /\ result.threshold = 25
    /\ Len(result.supplies) = 1
    /\ result.supplies[1].quantity = 25
    /\ result.supplies[1].status = "yellow"
    /\ \E i \in 1 .. Len(supplies) : supplies[i].quantity = 26

(***************************************************************************)
(* C13. create_project_from_query reports at most one medium, one style    *)
(* and one subject: for each hardcoded list, the keyword reported is a     *)
(* keyword of that list found in the lowered query such that no keyword    *)
(* earlier in the list is found in it, wherever the keywords stand in the  *)
(* text and however long they are; when no keyword of the list is found    *)
(* the field is null.                                                      *)
(***************************************************************************)
Planned == result.op = "create_project_from_query" /\ result.ok

FoundIn(keywords, text) ==
    { k \in 1 .. Len(keywords) : Contains(keywords[k], lower(text)) }

FirstInList(keywords, text, field) ==
    IF FoundIn(keywords, text) = {}
    THEN field = None
    ELSE \E k \in FoundIn(keywords, text) :
            /\ field = Some(keywords[k])
            /\ \A j \in FoundIn(keywords, text) : k <= j

C13_FirstListedKeyword ==
    Planned =>
        /\ FirstInList(mediums, result.query, result.parsed_from_query.medium)
        /\ FirstInList(styles, result.query, result.parsed_from_query.style)
        /\ FirstInList(subjects, result.query, result.parsed_from_query.subject)
        /\ result.suggested_project.medium = result.parsed_from_query.medium
        /\ result.suggested_project.style = result.parsed_from_query.style
        /\ result.suggested_project.subject = result.parsed_from_query.subject

C13_Witness ==
    /\ Planned
    /\ result.query = <<"p", "i", "n", "k", " ", "O", "i", "l">>
    /\ result.parsed_from_query.medium = Some(<<"o", "i", "l">>)
    /\ result.parsed_from_query.style = None

(***************************************************************************)
(* C14. update_supply, update_project and update_portfolio_piece change    *)
(* only the fields whose argument was provided, plus updated_at and, on a  *)
(* transition to "completed", completed_at; every other field of the       *)
(* updated row, every other row and every other table is as before.        *)
(***************************************************************************)
ProvidedFields(call, row) ==
    {"updated_at"}
    \cup (IF call.op = "update_supply" /\ call.name # None THEN {"name"} ELSE {})
    \cup (IF call.op = "update_supply" /\ call.quantity # None
          THEN {"quantity"} ELSE {})
    \cup (IF call.op # "update_supply" /\ call.status # None THEN {"status"} ELSE {})
    \cup (IF call.op = "update_project" /\ call.materials_list # None
          THEN {"materials_list"} ELSE {})
    \cup (IF call.op = "update_portfolio_piece" /\ call.image # "none"
          THEN {"image_path"} ELSE {})
    \cup (IF /\ call.op # "update_supply"
             /\ \/ call.kw_completed_at # None
                \/ call.status = Some("completed") /\ row.status # "completed"
          THEN {"completed_at"} ELSE {})

PatchedOnly(call, before, after) ==
    /\ Len(after) = Len(before)
    /\ \A i \in 1 .. Len(before) :
          /\ DOMAIN after[i] = DOMAIN before[i]
          /\ after[i].id = before[i].id
          /\ before[i].id # call.id => after[i] = before[i]
          /\ \A f \in DOMAIN before[i] :
                after[i][f] # before[i][f] => f \in ProvidedFields(call, before[i])

C14_OnlyProvidedFields ==
    [][ /\ last'.op = "update_supply" =>
             /\ PatchedOnly(last', supplies, supplies')
             /\ UNCHANGED <<usage, projects, pieces, prefs>>
        /\ last'.op = "update_project" =>
             /\ PatchedOnly(last', projects, projects')
             /\ UNCHANGED <<supplies, usage, pieces, prefs>>
        /\ last'.op = "update_portfolio_piece" =>
             /\ PatchedOnly(last', pieces, pieces')
             /\ UNCHANGED <<supplies, usage, projects, prefs>>
      ]_vars

C14_Witness ==
    /\ last.op = "update_project" /\ last.ok /\ last.id = 1
    /\ last.status = Some("completed") /\ last.materials_list = None
    /\ last.kw_completed_at = None
    /\ projects[1].status = "completed"
    /\ projects[1].completed_at = Some(1)
    /\ projects[1].updated_at = 1
    /\ projects[1].estimated_budget = Some(40)
    /\ projects[2].updated_at = 0
    /\ supplies[1].updated_at = 0

(***************************************************************************)
(* C15. A store function that hits an exception does not raise: it returns *)
(* the failure result, and after a call that returned a failure the        *)
(* database holds exactly the rows, with the same values, that it held     *)
(* before the call.                                                        *)
(***************************************************************************)
Finished(r) == req[r].pc \in {"returned", "raised"}

C15_FailureLeavesDatabase ==
    \A r \in Requests :
        Finished(r) =>
            /\ req[r].pc # "raised"
            /\ ~req[r].ret[1].ok => Database = req[r].before

(***************************************************************************)
(* C16. A call of one of the ten lookup, update, use and delete functions  *)
(* with an id that no row has returns {success: false, error: text} and    *)
(* leaves every table as it was.                                           *)
(***************************************************************************)
MissingIdOps ==
    { "get_supply_by_id", "update_supply", "use_supply", "get_project",
      "update_project", "generate_shopping_list", "add_session_notes",
      "get_portfolio_piece", "update_portfolio_piece", "delete_portfolio_piece" }

TableBefore(c) ==
    IF c.op \in SupplyOps THEN c.before.supplies
    ELSE IF c.op \in ProjectOps THEN c.before.projects
    ELSE c.before.pieces

AddressedToNoRow(c) ==
    /\ c.op \in MissingIdOps
    /\ \A i \in 1 .. Len(TableBefore(c)) : TableBefore(c)[i].id # c.id

C16_MissingIdFails ==
    \A r \in Requests :
        (req[r].pc = "returned" /\ AddressedToNoRow(req[r])) =>
            /\ req[r].ret # None
            /\ DOMAIN req[r].ret[1] = {"ok", "error"}
            /\ ~req[r].ret[1].ok
            /\ Database = req[r].before

C16_Witness ==
    /\ req[1].pc = "returned"
    /\ req[1].op = "delete_portfolio_piece" /\ req[1].id = 2
    /\ req[1].ret = Some(Failure("Portfolio piece not found"))
    /\ Len(pieces) = 1 /\ pieces[1].id = 1

(***************************************************************************)
(* C17. A session is open from SessionLocal() to the finally block and no  *)
(* longer: once the call has returned (after a commit, after the early     *)
(* return for a missing row, or after an exception) or has raised, no      *)
(* session of that call is open.                                           *)
(***************************************************************************)
C17_SessionClosedOnReturn ==
    \A r \in Requests :
        /\ req[r].pc \in {"try", "loaded", "except", "finally"} =>
              req[r].session = "open"
        /\ Finished(r) =>
              /\ req[r].session \in {"none", "closed"}
              /\ req[r].session = "none" =>
                    req[r].op \in {"add_progress_image", "save_project_to_file"}

C17_Witness ==
    /\ req[1].pc = "returned"
    /\ req[1].op = "update_supply"
    /\ req[1].ret = Some(Failure("exception text"))
    /\ req[1].session = "closed"
    /\ supplies[1].quantity = 30

(***************************************************************************)
(* C18. Two requests that modify the same supply, with their reads and     *)
(* commits interleaved: neither is blocked (a request that has read can    *)
(* always commit) or rejected (both return success), and once both have    *)
(* returned the stored quantity is the one the last committer wrote; what  *)
(* the other request wrote to it is lost.                                  *)
(***************************************************************************)
AllReturned == \A r \in Requests : req[r].pc = "returned"

CommitsLast(r) ==
    /\ req[r].seq > 0
    /\ \A q \in Requests : req[q].seq <= req[r].seq

C18_LastCommitWins ==
    /\ \A r \in Requests :
          /\ req[r].pc = "try" => ENABLED QueryFirst(r, FALSE)
          /\ req[r].pc = "loaded" => ENABLED Commit(r, "none")
          /\ req[r].pc = "finally" => ENABLED Finally(r)
    /\ AllReturned =>
          \A r \in Requests :
              /\ req[r].ret = Some(Success)
              /\ (CommitsLast(r) /\ "quantity" \in req[r].written) =>
                    supplies[1].quantity = req[r].row[1].quantity

C18_Witness ==
    /\ AllReturned
    /\ \A r \in Requests :
          req[r].op = "use_supply" /\ req[r].arg.amount_used = 25
    /\ Len(usage) = 2
    /\ supplies[1].quantity = 35

(***************************************************************************)
(* C19. When the agent runtime fails during a POST /api/chat with a        *)
(* non-empty message, at the agent's initialization or while the message   *)
(* is sent, the answer is the fallback (success true, fallback true) and   *)
(* never success false.                                                    *)
(***************************************************************************)
ChatAnswered == result.op = "chat" /\ last.op = "chat" /\ last.message # ""

IsFallback ==
    /\ result.ok
    /\ "fallback" \in DOMAIN result
    /\ result.fallback
    /\ result.status = 200

C19_FallbackOnAnyFailure ==
    (ChatAnswered /\ result.failed_at # "none") => IsFallback

(***************************************************************************)
(* C19, as the code has it: the fallback answers a failure to import or    *)
(* initialize the agent (in get_agent, or when send_message initializes    *)
(* again); a failure of client.send_message is caught inside send_message  *)
(* and the endpoint answers {success: false, error} with HTTP 200.         *)
(***************************************************************************)
C19_FallbackOnInitFailure ==
    ChatAnswered =>
        /\ result.failed_at = "initialize" => IsFallback
        /\ result.failed_at = "send" =>
              /\ ~result.ok
              /\ "error" \in DOMAIN result
              /\ "fallback" \notin DOMAIN result
              /\ result.status = 200
        /\ result.failed_at = "none" =>
              result.ok /\ "fallback" \notin DOMAIN result

C19_Witness ==
    /\ ChatAnswered
    /\ last.fault = "send" /\ result.failed_at = "send"
    /\ ~result.ok
    /\ agent.instance /\ agent.client /\ agent.agent_id

(***************************************************************************)
(* C20. When the Pinterest HTTP request fails (it raises, or answers with  *)
(* a status other than 200), get_pinterest_boards and                      *)
(* search_pinterest_inspiration return mock data with success true.        *)
(***************************************************************************)
PinterestCalled ==
    /\ last.op \in {"get_pinterest_boards", "search_pinterest_inspiration"}
    /\ result.op = last.op

RequestFailed ==
    /\ last.token
    /\ last.http.raises \/ last.http.status # 200

C20_MockOnRequestFailure ==
    (PinterestCalled /\ RequestFailed) =>
        /\ result.ok
        /\ "source" \in DOMAIN result
        /\ result.source = "mock"

(***************************************************************************)
(* C20, as the code has it: a failed request gives the error result        *)
(* {success: false, error} with no boards and no results; the mock data    *)
(* (success true, source "mock") is returned when no access token is       *)
(* configured, and then no request is made; a 200 answer gives the API's   *)
(* items with source "pinterest_api".                                      *)
(***************************************************************************)
C20_ErrorOnRequestFailure ==
    PinterestCalled =>
        IF ~last.token
        THEN result.ok /\ result.source = "mock"
        ELSE IF RequestFailed
        THEN /\ ~result.ok
             /\ "error" \in DOMAIN result
             /\ DOMAIN result \cap {"source", "boards", "results"} = {}
        ELSE result.ok /\ result.source = "pinterest_api"

C20_Witness ==
    /\ PinterestCalled
    /\ last.op = "search_pinterest_inspiration"
    /\ last.token
    /\ ~last.http.raises /\ last.http.status = 500
    /\ ~result.ok
    /\ result.error = "Pinterest API error"

(***************************************************************************)
(* C21. Every REST endpoint answers every request, including one with a    *)
(* missing JSON body or a non-numeric threshold, quantity or budget, with  *)
(* a JSON object that has a boolean success field and with HTTP status     *)
(* 200 or 400; a failure carries {success: false, error} and no request    *)
(* ends in an unhandled exception.                                         *)
(***************************************************************************)
RouteAnswered ==
    result.op \in {"chat", "api_low_stock", "get_low_stock_supplies",
                   "api_add_supply", "api_suggest_project",
                   "create_project_from_query"}

C21_EveryRequestAnsweredWithJson ==
    RouteAnswered =>
        /\ "exception" \notin DOMAIN result
        /\ "ok" \in DOMAIN result
        /\ result.ok \in BOOLEAN
        /\ status_code(result) \in {200, 400}
        /\ ~result.ok => "error" \in DOMAIN result

(***************************************************************************)
(* C22. After any sequence of create_project and update_project calls      *)
(* with arbitrary status arguments, the status of every project is one of  *)
(* planned, in_progress, completed.                                        *)
(***************************************************************************)
C22_ProjectStatusInRange ==
    \A i \in 1 .. Len(projects) :
        projects[i].status \in {"planned", "in_progress", "completed"}

(***************************************************************************)
(* C29. After any sequence of create_project, update_project and           *)
(* add_session_notes calls, every project whose status is "completed" has  *)
(* completed_at set, and a project created by create_project starts with   *)
(* status "planned" and completed_at null.                                 *)
(***************************************************************************)
JustCreated(i) ==
    /\ last.op = "create_project"
    /\ last.ok
    /\ projects[i].id = last.id

C29_CompletedProjectHasCompletedAt ==
    \A i \in 1 .. Len(projects) :
        /\ projects[i].status = "completed" => projects[i].completed_at # None
        /\ JustCreated(i) =>
              projects[i].status = "planned" /\ projects[i].completed_at = None

C29_Witness ==
    /\ last.op = "add_session_notes"
    /\ last.ok
    /\ \E i \in 1 .. Len(projects) :
          /\ projects[i].id = last.id
          /\ projects[i].status = "completed"
          /\ projects[i].completed_at = Some(1)
          /\ projects[i].notes # << >>

(***************************************************************************)
(* C23. Over any sequence of add_portfolio_piece, update_portfolio_piece   *)
(* and add_progress_image calls, the status of a portfolio piece is always *)
(* one of sketch, wip, completed and never moves backward in that order.   *)
(***************************************************************************)
LifecycleRank(status) ==
    IF status = "sketch" THEN 1 ELSE IF status = "wip" THEN 2 ELSE 3

PieceUpdated(i) ==
    /\ last.op \in {"update_portfolio_piece", "add_progress_image"}
    /\ last.ok
    /\ pieces[i].id = last.id

C23_StatusFollowsLifecycle ==
    \A i \in 1 .. Len(pieces) :
        /\ pieces[i].status \in {"sketch", "wip", "completed"}
        /\ PieceUpdated(i) =>
              LifecycleRank(pieces[i].status) >= LifecycleRank(last.old_status)

(***************************************************************************)
(* C28. After any sequence of add_portfolio_piece, update_portfolio_piece  *)
(* and add_progress_image calls, every portfolio piece whose status is     *)
(* "completed" has completed_at set.                                       *)
(***************************************************************************)
C28_CompletedPieceHasCompletedAt ==
    \A i \in 1 .. Len(pieces) :
        pieces[i].status = "completed" => pieces[i].completed_at # None

(***************************************************************************)
(* C30. Each successful add_progress_image appends exactly one entry at    *)
(* the end of the piece's progress_images list: the entries present before *)
(* the call stay in the same order, the list is one longer, and the        *)
(* returned progress_count equals the new length; progress images of other *)
(* pieces are unchanged.                                                   *)
(***************************************************************************)
AppendedOne(before, after, count) ==
    /\ Len(after) = Len(before) + 1
    /\ SubSeq(after, 1, Len(before)) = before
    /\ count = Len(after)

C30_AppendsOneEntry ==
    [][ (last'.op = "add_progress_image" /\ last'.ok) =>
          /\ Len(pieces') = Len(pieces)
          /\ \A i \in 1 .. Len(pieces) :
                IF pieces[i].id = last'.id
                THEN AppendedOne(pieces[i].progress_images,
                                 pieces'[i].progress_images, last'.progress_count)
                ELSE pieces'[i].progress_images = pieces[i].progress_images
      ]_vars

C30_Witness ==
    /\ last.op = "add_progress_image"
    /\ last.ok
    /\ last.id = 1
    /\ last.progress_count = 2
    /\ Len(pieces[1].progress_images) = 2
    /\ pieces[1].progress_images[1].added_at < pieces[1].progress_images[2].added_at
    /\ Len(pieces[2].progress_images) = 1

(***************************************************************************)
(* C24. After any sequence of save_style_preference calls with arbitrary   *)
(* confidence arguments, the confidence of every stored style preference   *)
(* lies in [0,1].                                                          *)
(***************************************************************************)
C24_ConfidenceInUnitInterval ==
    \A i \in 1 .. Len(prefs) :
        0 <= prefs[i].confidence /\ prefs[i].confidence <= CONFIDENCE_MAX

(***************************************************************************)
(* C25. For any interleaving of two concurrent save_style_preference calls *)
(* with the same (category, value), at most one row with that (category,   *)
(* value) exists after both calls finish.                                  *)
(***************************************************************************)
BothFinished == \A r \in Requests : req[r].pc = "returned"

C25_NoDuplicateAfterConcurrentCalls ==
    BothFinished =>
        \A i, j \in 1 .. Len(prefs) :
            (prefs[i].category = prefs[j].category /\ prefs[i].value = prefs[j].value)
                => i = j

(***************************************************************************)
(* C26. use_supply reduces a supply's quantity and never increases it: for *)
(* every existing supply with quantity q and every amount_used a, negative *)
(* a and a > q included, the quantity stored after a successful call is    *)
(* max(0, q - a) and lies in [0, q].                                       *)
(***************************************************************************)
C26_UseSupplyNeverIncreases ==
    (last.op = "use_supply" /\ last.ok) =>
        LET q == last.previous_quantity
            a == last.quantity[1]
            stored == supplies[FirstIndex(supplies, last.id)].quantity
        IN /\ stored = (IF q - a > 0 THEN q - a ELSE 0)
           /\ 0 <= stored
           /\ stored <= q

(***************************************************************************)
(* C27. Every agent instance that get_agent returns is initialized (its    *)
(* client and agent_id are set), over any sequence of get_agent calls,     *)
(* calls after one whose initialization raised included; and all calls     *)
(* return the same single instance.                                        *)
(***************************************************************************)
C27_ReturnedAgentInitialized ==
    /\ agent.constructed <= 1
    /\ (last.op = "get_agent" /\ last.ok) =>
          /\ last.returned[1].instance
          /\ last.returned[1].client
          /\ last.returned[1].agent_id

====
